---- MODULE Spec2Model ----
(***************************************************************************)
(* Verification model of the SONATA-AI note pipeline:                      *)
(*   - the quantizer and grand-staff splitter (normalizeNote,              *)
(*     splitToGrandStaff, normalizeComposition),                           *)
(*   - the notation-text encoder (syncAbcNotation),                        *)
(*   - the score-XML encoder (generateMusicXml).                           *)
(*                                                                         *)
(* Numbers.  Times and durations are integers counting 1/32 of a beat, so  *)
(* that 1/16 beat (2 units), the XML tick of 1/8 beat (4 units) and the    *)
(* quantization grid of 1/4 beat (8 units) are all representable together  *)
(* with values that lie between grid points.  Velocities and volumes are   *)
(* integers counting hundredths.  An optional field (velocity?) is a       *)
(* sequence: <<>> when the field is absent, <<v>> when it holds v.         *)
(***************************************************************************)
EXTENDS Integers, Sequences, FiniteSets, Bags, TLC

VARIABLES
    rawNote,      \* normalizeNote: the note as it arrived
    note,         \* normalizeNote: the note after the normalizations applied so far
    prevNote,     \* normalizeNote: the note before the last normalization
    applied,      \* normalizeNote: how many times it was applied (capped at 2)
    composition,  \* the current Composition (its tracks)
    prev,         \* the Composition before the last normalizeComposition
    normCount,    \* how many times normalizeComposition was applied (capped at 2)
    encoded,      \* TRUE once both encoders have run on the composition
    abc,          \* output of syncAbcNotation
    xml,          \* output of generateMusicXml
    currentComposition,   \* App: the composition state, <<>> while it is null
    history,              \* App: the history state, newest first
    selectedInstruments,  \* App: the selectedInstruments state
    idsIssued,            \* App: how many _id values addToHistory has handed out
    editCount,            \* App: how many edits the user has made (capped at MaxEdits)
    waveform,     \* importAudioFile: the decoded channel data (length, rate, pitch per frame)
    scanPhase,    \* importAudioFile: "idle", "scanning", "yielded" (at the await) or "done"
    frameIndex,   \* importAudioFile: frames processed so far
    pitches,      \* importAudioFile: the pitch track built so far
    reports,      \* importAudioFile: the progress values passed to onProgress so far
    sinceYield,   \* importAudioFile: frames processed since the scan last gave up the thread
    hostRan,      \* TRUE when a host task has run at the current yield point
    rawNotes,     \* importAudioFile: result of buildNotesFromPitchTrack
    importResult, \* <<>>, or what importAudioFile / importMidiFile returned or threw
    rasterized,   \* downloadPdf: the rendered pages with the outcome of svgToJpegBytes
    pagesData,    \* makePdfBlobFromJpegs: its argument
    pdfPhase,     \* "idle", "assembling" (inside makePdfBlobFromJpegs) or "done"
    pagesWritten, \* makePdfBlobFromJpegs: -1 before the header, then pages written so far
    chunks,       \* makePdfBlobFromJpegs: the chunks written so far
    byteLength,   \* makePdfBlobFromJpegs: bytes written so far
    offsets,      \* makePdfBlobFromJpegs: object id -> byte offset
    exporting,    \* TRUE when makePdfBlobFromJpegs runs inside downloadPdf
    downloaded,   \* downloadPdf: <<>>, or the blob handed to the browser
    exportFailed, \* downloadPdf: TRUE once its catch block has run
    tempoStyle,   \* tempoFromStyle: the argument style
    tempoTitle,   \* tempoFromStyle: the argument title
    tempo,        \* tempoFromStyle: <<>>, or its last result
    prevTempo,    \* tempoFromStyle: <<>>, or the result of the call before the last one
    tempoCalls,   \* how many times tempoFromStyle was called (capped at 2)
    styleKey,           \* generator: 'BACH' or 'BEETHOVEN'
    currentRootDegree,  \* generator: the harmonic root degree
    degreeArg,          \* getWeightedNextDegree: <<>>, or the currentDegree of the last call
    degreeDraw,         \* getWeightedNextDegree: <<>>, or Math.random() of the last call, in hundredths
    degreeCalls,        \* how many times getWeightedNextDegree was called on its own (capped)
    retryPhase,         \* withRetry: "idle" until it is called
    symbolPitches,      \* midiToAbc: two MIDI pitches to spell
    symbols,            \* midiToAbc: <<>>, or the symbols of the two pitches
    draws,              \* generator: the values Math.random() returns at each call site, in hundredths
    cellTape,           \* generateStochasticMelody: Math.random() for the rhythmic cells, read in a cycle
    melodyPhase,        \* generateStochasticMelody: "idle", "walking" (in the while loop) or "returned"
    melodyArgs,         \* generateStochasticMelody: its arguments scale, length, rhythmicStyle and range
    currentTime,        \* generateStochasticMelody: currentTime, in thousandths of a beat
    melodyNotes,        \* generateStochasticMelody: notes
    lastPitchIndex,     \* generateStochasticMelody: lastPitchIndex
    cellsDrawn,         \* generateStochasticMelody: how many rhythmic cells were drawn
    genPhase,           \* proceduralCompose: "idle", "seed", "sections" or "done"
    genArgs,            \* proceduralCompose: its arguments style, title and userName
    section,            \* generateAdvancedComposition: s, the section to generate next
    seedMotif,          \* generateAdvancedComposition: seedMotif
    genTracks,          \* generateAdvancedComposition: the notes of tracks[0] and tracks[1]
    totalAbc,           \* generateAdvancedComposition: totalAbc, as a sequence of lines
    genResult,          \* <<>>, or the Composition proceduralCompose returned
    retries,  \* withRetry: the parameter retries of the invocation that runs
    delay,  \* withRetry: its parameter delay, in ms
    calls,  \* withRetry: how often fn has been called
    waits,  \* withRetry: the timers set so far: base delay and jitter, in ms
    failures,  \* withRetry: the errors fn has thrown so far
    retryArgs,  \* withRetry: the retries it was first called with
    retryResult  \* what the caller of withRetry or composeMusic gets

noteVars == <<rawNote, note, prevNote, applied>>
compVars == <<composition, prev, normCount>>
encVars == <<encoded, abc, xml>>
pipelineVars == <<noteVars, compVars, encVars>>
appVars == <<currentComposition, history, selectedInstruments, idsIssued, editCount>>
audioVars == <<waveform, scanPhase, frameIndex, pitches, reports, sinceYield, hostRan,
               rawNotes, importResult>>
pdfVars == <<rasterized, pagesData, pdfPhase, pagesWritten, chunks, byteLength, offsets,
             exporting, downloaded, exportFailed>>
tempoVars == <<tempoStyle, tempoTitle, tempo, prevTempo, tempoCalls>>
degreeVars == <<styleKey, currentRootDegree, degreeArg, degreeDraw, degreeCalls>>
melodyVars == <<draws, cellTape, melodyPhase, melodyArgs, currentTime, melodyNotes, lastPitchIndex,
    cellsDrawn>>
composeVars == <<genPhase, genArgs, section, seedMotif, genTracks, totalAbc, genResult>>
genVars == <<degreeVars, melodyVars, composeVars>>
retryVars == <<retryPhase,
    retries, delay, calls, waits, failures, retryArgs, retryResult>>
symbolVars == <<symbolPitches, symbols>>
sideVars == <<appVars, audioVars, pdfVars, tempoVars, genVars, retryVars, symbolVars>>
notAppVars == <<pipelineVars, audioVars, pdfVars, tempoVars, genVars, retryVars, symbolVars>>
notAudioVars == <<pipelineVars, appVars, pdfVars, tempoVars, genVars, retryVars, symbolVars>>
notPdfVars == <<pipelineVars, appVars, audioVars, tempoVars, genVars, retryVars, symbolVars>>
notTempoVars == <<pipelineVars, appVars, audioVars, pdfVars, genVars, retryVars, symbolVars>>
notGenVars == <<pipelineVars, appVars, audioVars, pdfVars, tempoVars, retryVars, symbolVars>>
notRetryVars == <<pipelineVars, appVars, audioVars, pdfVars, tempoVars, genVars, symbolVars>>
notSymbolVars == <<pipelineVars, appVars, audioVars, pdfVars, tempoVars, genVars, retryVars>>
vars == <<pipelineVars, sideVars>>

----------------------------------------------------------------------------
(* Bounds of the model *)

MaxTracks == 3
MaxNotes == 2

----------------------------------------------------------------------------
(* Program constants *)

PITCH_SPLIT == 60
\* 0.25 beat, in units of 1/32 beat
TIME_GRID == 8
\* one beat is four grid units (TIME_GRID = 0.25)
BEAT == 4 * TIME_GRID
\* clamp(note.velocity ?? 0.7, 0.05, 1), in hundredths
VELOCITY_DEFAULT == 70
VELOCITY_MIN == 5
VELOCITY_MAX == 100
\* volume: 0.8 of the two split tracks, in hundredths
SPLIT_VOLUME == 80

----------------------------------------------------------------------------
(* Arithmetic helpers *)

Max2(a, b) == IF a >= b THEN a ELSE b
Min2(a, b) == IF a <= b THEN a ELSE b
Abs(a) == IF a >= 0 THEN a ELSE 0 - a

\* Math.round(n / d) for d > 0: the nearest integer, halves rounded up
MathRound(n, d) == (2 * n + d) \div (2 * d)

\* Math.ceil(n / d) for d > 0
MathCeil(n, d) == 0 - ((0 - n) \div d)

\* the maximum of a non-empty set of integers (Math.max(...list))
SetMax(S) == CHOOSE x \in S : \A y \in S : y <= x

\* a ?? d on an optional value
OrElse(opt, d) == IF opt = <<>> THEN d ELSE opt[1]

----------------------------------------------------------------------------
(* Quantizer: App.tsx 1219-1251 *)

clamp(value, min, max) == Min2(max, Max2(min, value))

\* mutant: the rounded quotient is returned without scaling back by the grid
quantizeNoRescale(value) == MathRound(value, TIME_GRID)

quantize(value) == MathRound(value, TIME_GRID) * TIME_GRID

\* mutant: truncation to the grid instead of rounding to the nearest grid point
normalizeNoteTruncating(n) ==
    [n EXCEPT !.time = Max2(0, (n.time \div TIME_GRID) * TIME_GRID),
              !.duration = Max2(TIME_GRID, (n.duration \div TIME_GRID) * TIME_GRID),
              !.velocity = <<clamp(OrElse(n.velocity, VELOCITY_DEFAULT), VELOCITY_MIN, VELOCITY_MAX)>>]

normalizeNote(n) ==
    [n EXCEPT !.time = Max2(0, quantize(n.time)),
              !.duration = Max2(TIME_GRID, quantize(n.duration)),
              !.velocity = <<clamp(OrElse(n.velocity, VELOCITY_DEFAULT), VELOCITY_MIN, VELOCITY_MAX)>>]

----------------------------------------------------------------------------
(* Grand-staff splitter: App.tsx 1253-1292 *)

\* Array.prototype.sort with a comparator: stable, so the element placed at
\* position k is the one with exactly k-1 elements before it in the order
\* "smaller, or equal and earlier in the array"
StableSort(s, Less(_, _)) ==
    LET n == Len(s)
        rank(i) == Cardinality({j \in 1..n : \/ Less(s[j], s[i])
                                             \/ (~Less(s[i], s[j]) /\ j < i)})
    IN [k \in 1..n |-> s[CHOOSE i \in 1..n : rank(i) = k - 1]]

\* (a.time - b.time) || (a.pitch - b.pitch) is negative
ByTimeThenPitch(a, b) == a.time < b.time \/ (a.time = b.time /\ a.pitch < b.pitch)

\* a.time - b.time is negative
ByTime(a, b) == a.time < b.time

Reverse(s) == [i \in 1..Len(s) |-> s[Len(s) + 1 - i]]

\* mutant: an unstable sort, which leaves notes that compare equal in reverse order
sortNotesReversingTies(notes) == StableSort(Reverse(notes), ByTimeThenPitch)

sortNotes(notes) == StableSort(notes, ByTimeThenPitch)

\* tracks.flatMap(t => t.notes || [])
RECURSIVE FlatNotes(_)
FlatNotes(tracks) ==
    IF tracks = <<>> THEN <<>> ELSE Head(tracks).notes \o FlatNotes(Tail(tracks))

MapSeq(s, F(_)) == [i \in 1..Len(s) |-> F(s[i])]

\* tracks[0]?.instrument || 'Piano'
FirstInstrument(tracks) ==
    IF tracks = <<>> \/ tracks[1].instrument = "" THEN "Piano" ELSE tracks[1].instrument

\* mutant: middle C itself is sent to the lower voice
splitToGrandStaffAboveOnly(tracks) ==
    LET normalized == MapSeq(FlatNotes(tracks), normalizeNote)
        instrument == FirstInstrument(tracks)
    IN [rh |-> [instrument |-> instrument, volume |-> SPLIT_VOLUME,
                notes |-> sortNotes(SelectSeq(normalized, LAMBDA n : ~(n.pitch <= PITCH_SPLIT)))],
        lh |-> [instrument |-> instrument, volume |-> SPLIT_VOLUME,
                notes |-> sortNotes(SelectSeq(normalized, LAMBDA n : n.pitch <= PITCH_SPLIT))]]

splitToGrandStaff(tracks) ==
    LET normalized == MapSeq(FlatNotes(tracks), normalizeNote)
        instrument == FirstInstrument(tracks)
    IN [rh |-> [instrument |-> instrument, volume |-> SPLIT_VOLUME,
                notes |-> sortNotes(SelectSeq(normalized, LAMBDA n : ~(n.pitch < PITCH_SPLIT)))],
        lh |-> [instrument |-> instrument, volume |-> SPLIT_VOLUME,
                notes |-> sortNotes(SelectSeq(normalized, LAMBDA n : n.pitch < PITCH_SPLIT))]]

\* tracks.every(t => t.instrument === tracks[0].instrument)
sameInstrument(tracks) ==
    \A i \in 1..Len(tracks) : tracks[i].instrument = tracks[1].instrument

\* mutant: splitting is skipped when more than two distinct labels are in use
normalizeCompositionByLabelCount(c) ==
    IF Len(c.tracks) = 0 THEN [c EXCEPT !.tracks = <<>>]
    ELSE IF Cardinality({c.tracks[i].instrument : i \in 1..Len(c.tracks)}) > 2 THEN c
    ELSE LET s == splitToGrandStaff(c.tracks)
         IN [c EXCEPT !.tracks = <<s.rh, s.lh>>]

normalizeComposition(c) ==
    IF Len(c.tracks) = 0 THEN [c EXCEPT !.tracks = <<>>]
    ELSE IF Len(c.tracks) > 2 /\ ~sameInstrument(c.tracks) THEN c
    ELSE LET s == splitToGrandStaff(c.tracks)
         IN [c EXCEPT !.tracks = <<s.rh, s.lh>>]

----------------------------------------------------------------------------
(* Notation-text encoder: App.tsx 1346-1364, 1700-1811 *)

\* the sequence s sorted ascending: [...byTime.keys()].sort((a, b) => a - b)
SortedSeq(S) == StableSort(
    [i \in 1..Cardinality(S) |->
        CHOOSE x \in S : Cardinality({y \in S : y < x}) = i - 1],
    LAMBDA a, b : a < b)

\* array.find(test): the first element passing the test, <<>> (undefined) if none
Find(s, Test(_)) ==
    LET hits == {i \in 1..Len(s) : Test(s[i])}
    IN IF hits = {} THEN <<>> ELSE <<s[CHOOSE i \in hits : \A j \in hits : i <= j]>>

\* String.prototype.toLowerCase on a note letter
toLowerCase(letters) ==
    LET lower == [ch \in {"A", "B", "C", "D", "E", "F", "G"} |->
                    CASE ch = "A" -> "a" [] ch = "B" -> "b" [] ch = "C" -> "c"
                      [] ch = "D" -> "d" [] ch = "E" -> "e" [] ch = "F" -> "f"
                      [] ch = "G" -> "g"]
    IN [i \in 1..Len(letters) |-> lower[letters[i]]]

\* ch.repeat(count)
Repeat(ch, count) == [i \in 1..count |-> ch]

\* the symbols are sequences of characters; midi is not negative here
\* (noteNames[midi % 12] is undefined for a negative midi)
midiToAbc(midi) ==
    LET noteNames == << <<"C">>, <<"^", "C">>, <<"D">>, <<"^", "D">>, <<"E">>, <<"F">>,
                        <<"^", "F">>, <<"G">>, <<"^", "G">>, <<"A">>, <<"^", "A">>, <<"B">> >>
        octave == (midi \div 12) - 1
        noteName == noteNames[(midi % 12) + 1]
        isSharp == Head(noteName) = "^"
        baseNote == IF isSharp THEN Tail(noteName) ELSE noteName
        prefix == IF isSharp THEN <<"^">> ELSE <<>>
    IN IF octave = 4 THEN prefix \o baseNote
       ELSE IF octave = 5 THEN prefix \o toLowerCase(baseNote)
       ELSE IF octave >= 6 THEN prefix \o toLowerCase(baseNote) \o Repeat("'", octave - 5)
       ELSE IF octave = 3 THEN prefix \o baseNote \o <<",">>
       ELSE IF octave = 2 THEN prefix \o baseNote \o <<",", ",">>
       ELSE IF octave <= 1 THEN prefix \o baseNote \o <<",", ",", ",">>
       ELSE prefix \o baseNote

\* const ticksPerBeat = 1 / TIME_GRID
ticksPerBeat == BEAT \div TIME_GRID
beatsPerMeasure == 4
ticksPerMeasure == beatsPerMeasure * ticksPerBeat
barsPerLine == 4
linesPerPage == 8

toTicksTime(value) == Max2(0, MathRound(value, TIME_GRID))
toTicksDuration(value) == Max2(1, MathRound(value, TIME_GRID))

\* the length suffix of a token, in eighths: num and den are the numerator and
\* the denominator written, 0 where none is written
\* ("" for one eighth, "/2", "3", "5/2")
lengthFromTicks(ticks) ==
    IF ticks = 2 THEN [num |-> 0, den |-> 0]
    ELSE IF ticks = 1 THEN [num |-> 0, den |-> 2]
    ELSE IF ticks % 2 = 0 THEN [num |-> ticks \div 2, den |-> 0]
    ELSE [num |-> ticks, den |-> 2]

TimedNote(n) ==
    [pitch |-> n.pitch, timeTicks |-> toTicksTime(n.time),
     durationTicks |-> toTicksDuration(n.duration)]

\* byTime: start tick -> the notes starting there, in the order of the array;
\* allTimes: its keys, ascending
buildTimeMap(notes) ==
    LET timed == MapSeq(notes, TimedNote)
        keys == {timed[i].timeTicks : i \in 1..Len(timed)}
    IN [byTime |-> [t \in keys |-> SelectSeq(timed, LAMBDA n : n.timeTicks = t)],
        allTimes |-> SortedSeq(keys)]

AbcNoteToken(notesAtTime, durationTicks) ==
    [rest |-> FALSE,
     chord |-> Len(notesAtTime) > 1,
     pitches |-> MapSeq(notesAtTime, LAMBDA n : midiToAbc(n.pitch)),
     length |-> lengthFromTicks(durationTicks)]

AbcRestToken(gap) ==
    [rest |-> TRUE, chord |-> FALSE, pitches |-> <<>>, length |-> lengthFromTicks(gap)]

\* the minimum of a non-empty set of integers
SetMin(S) == CHOOSE x \in S : \A y \in S : x <= y

\* mutant: a simultaneity takes the length of its shortest note
AbcShortestDuration(notesAtTime) ==
    SetMin({notesAtTime[i].durationTicks : i \in 1..Len(notesAtTime)})

\* Math.max(...notesAtTime.map(n => n.durationTicks))
AbcChordDuration(notesAtTime) ==
    SetMax({notesAtTime[i].durationTicks : i \in 1..Len(notesAtTime)})

\* the tokens of the while loop of renderMeasure from the given cursor on
RECURSIVE AbcWalk(_, _, _, _)
AbcWalk(byTime, allTimes, cursor, measureEnd) ==
    IF ~(cursor < measureEnd) THEN <<>>
    ELSE IF cursor \in DOMAIN byTime /\ Len(byTime[cursor]) > 0
    THEN LET notesAtTime == byTime[cursor]
             durationTicks == AbcChordDuration(notesAtTime)
         IN <<AbcNoteToken(notesAtTime, durationTicks)>>
                \o AbcWalk(byTime, allTimes, cursor + durationTicks, measureEnd)
    ELSE LET nextTime == Find(allTimes, LAMBDA t : t > cursor /\ t < measureEnd)
             gap == OrElse(nextTime, measureEnd) - cursor
         IN <<AbcRestToken(gap)>>
                \o AbcWalk(byTime, allTimes, cursor + gap, measureEnd)

\* renderMeasure of syncAbcNotation
AbcRenderMeasure(map, measureIndex) ==
    AbcWalk(map.byTime, map.allTimes, measureIndex * ticksPerMeasure,
            (measureIndex + 1) * ticksPerMeasure)

\* mutant of AbcLastTick: the last start instead of the last end
AbcLastStart(notes) ==
    IF Len(notes) = 0 THEN 0
    ELSE SetMax({toTicksTime(notes[i].time) : i \in 1..Len(notes)})

\* Math.max(...notes.map(n => toTicksTime(n.time) + toTicksDuration(n.duration))), 0 if none
AbcLastTick(notes) ==
    IF Len(notes) = 0 THEN 0
    ELSE SetMax({toTicksTime(notes[i].time) + toTicksDuration(notes[i].duration)
                    : i \in 1..Len(notes)})

\* one piece of the body text
AbcItem(item, voice, measure, tokens) ==
    [item |-> item, voice |-> voice, measure |-> measure, tokens |-> tokens]

AbcBars(voice, map, from, to) ==
    [k \in 1..(to - from) |->
        AbcItem("bar", voice, from + k - 1, AbcRenderMeasure(map, from + k - 1))]

\* mutant of AbcBody: a page break after every eighth line, the last one too
RECURSIVE AbcBodyBreakingLastPage(_, _, _, _)
AbcBodyBreakingLastPage(m, totalMeasures, rhMap, lhMap) ==
    IF ~(m < totalMeasures) THEN <<>>
    ELSE
      LET voiceRH == IF m % barsPerLine = 0
                     THEN <<AbcItem("voice", "RH", m, <<>>)>> ELSE <<>>
          barRH == <<AbcItem("bar", "RH", m, AbcRenderMeasure(rhMap, m))>>
          isLineEnd == (m + 1) % barsPerLine = 0 \/ m = totalMeasures - 1
          lineStart == Max2(0, m - (barsPerLine - 1))
          lineEnd == m + 1
          lineIndex == m \div barsPerLine
          lineLH == IF isLineEnd
                    THEN <<AbcItem("newline", "", m, <<>>), AbcItem("voice", "LH", m, <<>>)>>
                           \o AbcBars("LH", lhMap, lineStart, lineEnd)
                           \o <<AbcItem("newline", "", m, <<>>)>>
                           \o (IF lineIndex = 0
                               THEN <<AbcItem("M:none", "", m, <<>>)>> ELSE <<>>)
                           \o (IF (lineIndex + 1) % linesPerPage = 0
                               THEN <<AbcItem("%%newpage", "", m, <<>>)>> ELSE <<>>)
                    ELSE <<>>
      IN voiceRH \o barRH \o lineLH
            \o AbcBodyBreakingLastPage(m + 1, totalMeasures, rhMap, lhMap)

\* the text appended to body by iterations m, m+1, ... of the measure loop
RECURSIVE AbcBody(_, _, _, _)
AbcBody(m, totalMeasures, rhMap, lhMap) ==
    IF ~(m < totalMeasures) THEN <<>>
    ELSE
      LET voiceRH == IF m % barsPerLine = 0
                     THEN <<AbcItem("voice", "RH", m, <<>>)>> ELSE <<>>
          barRH == <<AbcItem("bar", "RH", m, AbcRenderMeasure(rhMap, m))>>
          isLineEnd == (m + 1) % barsPerLine = 0 \/ m = totalMeasures - 1
          lineStart == Max2(0, m - (barsPerLine - 1))
          lineEnd == m + 1
          lineIndex == m \div barsPerLine
          lineLH == IF isLineEnd
                    THEN <<AbcItem("newline", "", m, <<>>), AbcItem("voice", "LH", m, <<>>)>>
                           \o AbcBars("LH", lhMap, lineStart, lineEnd)
                           \o <<AbcItem("newline", "", m, <<>>)>>
                           \o (IF lineIndex = 0
                               THEN <<AbcItem("M:none", "", m, <<>>)>> ELSE <<>>)
                           \o (IF (lineIndex + 1) % linesPerPage = 0 /\ m < totalMeasures - 1
                               THEN <<AbcItem("%%newpage", "", m, <<>>)>> ELSE <<>>)
                    ELSE <<>>
      IN voiceRH \o barRH \o lineLH \o AbcBody(m + 1, totalMeasures, rhMap, lhMap)

syncAbcNotation(c) ==
    LET s == splitToGrandStaff(c.tracks)
        rhNotes == StableSort(s.rh.notes, ByTime)
        lhNotes == StableSort(s.lh.notes, ByTime)
        instrumentName == IF s.rh.instrument = "" THEN "Piano" ELSE s.rh.instrument
        rhMap == buildTimeMap(rhNotes)
        lhMap == buildTimeMap(lhNotes)
        globalMaxTick == Max2(Max2(AbcLastTick(rhNotes), AbcLastTick(lhNotes)), ticksPerMeasure)
        minMeasures == linesPerPage * barsPerLine
        totalMeasures == Max2(minMeasures, MathCeil(globalMaxTick, ticksPerMeasure))
    IN [name |-> instrumentName,
        totalMeasures |-> totalMeasures,
        body |-> AbcBody(0, totalMeasures, rhMap, lhMap)]

----------------------------------------------------------------------------
(* Score-XML encoder: musicXmlService.ts *)

\* divisions per quarter
DIVISIONS == 8
BEATS_PER_MEASURE == 4
TICKS_PER_MEASURE == DIVISIONS * BEATS_PER_MEASURE

midiToPitch(midi) ==
    LET steps == <<"C", "C", "D", "D", "E", "F", "F", "G", "G", "A", "A", "B">>
        alters == <<0, 1, 0, 1, 0, 0, 1, 0, 1, 0, 1, 0>>
    IN [step |-> steps[(midi % 12) + 1],
        alter |-> alters[(midi % 12) + 1],
        octave |-> (midi \div 12) - 1]

\* splitToGrandStaff of musicXmlService.ts: no normalization of the notes
XmlSplitToGrandStaff(tracks) ==
    LET allNotes == FlatNotes(tracks)
    IN [rh |-> StableSort(SelectSeq(allNotes, LAMBDA n : ~(n.pitch < PITCH_SPLIT)), ByTimeThenPitch),
        lh |-> StableSort(SelectSeq(allNotes, LAMBDA n : n.pitch < PITCH_SPLIT), ByTimeThenPitch)]

\* Math.max(0, Math.round(beats * DIVISIONS))
toTicks(beats) == Max2(0, MathRound(beats * DIVISIONS, BEAT))

\* { ...n, duration: durationTicks } under its start tick
XmlTimedNote(n) ==
    [pitch |-> n.pitch, timeTicks |-> toTicks(n.time),
     duration |-> Max2(1, toTicks(n.duration))]

buildMeasureMap(notes) ==
    LET timed == MapSeq(notes, XmlTimedNote)
        keys == {timed[i].timeTicks : i \in 1..Len(timed)}
    IN [byTime |-> [t \in keys |-> SelectSeq(timed, LAMBDA n : n.timeTicks = t)],
        allTimes |-> SortedSeq(keys)]

\* one <note> element
XmlElement(rest, chord, pitch, duration, staff) ==
    [rest |-> rest, chord |-> chord, pitch |-> pitch, duration |-> duration, staff |-> staff]

NoPitch == [step |-> "", alter |-> 0, octave |-> 0]

\* Math.max(...notesAtTime.map(n => n.duration))
XmlChordDuration(notesAtTime) ==
    SetMax({notesAtTime[i].duration : i \in 1..Len(notesAtTime)})

\* the elements of the while loop of renderMeasure from the given cursor on
RECURSIVE XmlWalk(_, _, _, _, _)
XmlWalk(byTime, allTimes, cursor, measureEnd, staff) ==
    IF ~(cursor < measureEnd) THEN <<>>
    ELSE IF cursor \in DOMAIN byTime /\ Len(byTime[cursor]) > 0
    THEN LET notesAtTime == byTime[cursor]
             durationTicks == XmlChordDuration(notesAtTime)
         IN [idx \in 1..Len(notesAtTime) |->
                XmlElement(FALSE, idx > 1, midiToPitch(notesAtTime[idx].pitch),
                           durationTicks, staff)]
                \o XmlWalk(byTime, allTimes, cursor + durationTicks, measureEnd, staff)
    ELSE LET nextTime == Find(allTimes, LAMBDA t : t > cursor /\ t < measureEnd)
             gap == OrElse(nextTime, measureEnd) - cursor
             duration == clamp(gap, 1, TICKS_PER_MEASURE)
         IN <<XmlElement(TRUE, FALSE, NoPitch, duration, staff)>>
                \o XmlWalk(byTime, allTimes, cursor + duration, measureEnd, staff)

\* renderMeasure of musicXmlService.ts
XmlRenderMeasure(map, measureIndex, staff) ==
    XmlWalk(map.byTime, map.allTimes, measureIndex * TICKS_PER_MEASURE,
            (measureIndex + 1) * TICKS_PER_MEASURE, staff)

\* Math.max(...notes.map(n => toTicks(n.time) + toTicks(n.duration))), 0 if none
XmlLastTick(notes) ==
    IF Len(notes) = 0 THEN 0
    ELSE SetMax({toTicks(notes[i].time) + toTicks(notes[i].duration) : i \in 1..Len(notes)})

generateMusicXml(c) ==
    LET s == XmlSplitToGrandStaff(c.tracks)
        instrumentName == FirstInstrument(c.tracks)
        rhMap == buildMeasureMap(s.rh)
        lhMap == buildMeasureMap(s.lh)
        maxTick == Max2(Max2(XmlLastTick(s.rh), XmlLastTick(s.lh)), TICKS_PER_MEASURE)
        totalMeasures == Max2(1, MathCeil(maxTick, TICKS_PER_MEASURE))
    IN [name |-> instrumentName,
        totalMeasures |-> totalMeasures,
        measures |-> [k \in 1..totalMeasures |->
                        [number |-> k,
                         notes |-> XmlRenderMeasure(rhMap, k - 1, 1)
                                     \o XmlRenderMeasure(lhMap, k - 1, 2)]]]

----------------------------------------------------------------------------
(* Input domains *)

Note(p, t, d, v) == [pitch |-> p, time |-> t, duration |-> d, velocity |-> v]

\* notes offered to normalizeNote alone: out-of-range pitches, negative and
\* off-grid times, zero and off-grid durations, absent and out-of-range velocities
NotePitches == {0 - 1, 0, 59, 60, 127, 130}
NoteTimes == {0 - 5, 0 - 4, 0, 2, 3, 4, 5, 12, 32}
NoteDurations == {0 - 8, 0, 2, 3, 4, 5, 8, 12, 30}
NoteVelocities == {<<>>, <<0 - 10>>, <<0>>, <<4>>, <<5>>, <<70>>, <<100>>, <<150>>}

NoteDomain ==
    {Note(p, t, d, v) : p \in NotePitches, t \in NoteTimes, d \in NoteDurations, v \in NoteVelocities}

\* notes of a composition arriving from a collaborator (generated, imported):
\* both sides of the split pitch, off-grid values, equal start and pitch with
\* different lengths, an absent and an out-of-range velocity
CompositionNotes ==
    { Note(60, 32, 30, <<>>),
      Note(60, 3, 64, <<70>>),
      Note(60, 0, 30, <<150>>),
      Note(59, 3, 30, <<70>>),
      Note(64, 0, 64, <<70>>) }

\* notes of a composition that is normalized and then encoded: both voices,
\* off-grid starts and lengths, equal starts with lengths of 1 and 2 beats,
\* starts inside a sounding note, a note reaching into the next measure
EncoderPitches == {48, 60, 64}
EncoderTimes == {3, 32, 96}
EncoderDurations == {30, 64}

EncoderNotes ==
    {Note(p, t, d, <<VELOCITY_DEFAULT>>) :
        p \in EncoderPitches, t \in EncoderTimes, d \in EncoderDurations}

Instruments == {"Piano", "Violin", "Cello"}

\* volume of a track as it arrives, in hundredths
Track(inst) == [instrument |-> inst, volume |-> 100, notes |-> <<>>]

IdleNote == Note(60, 0, TIME_GRID, <<VELOCITY_DEFAULT>>)
IdleComposition == [tracks |-> <<>>]
IdleAbc == [name |-> "", totalMeasures |-> 0, body |-> <<>>]
IdleXml == [name |-> "", totalMeasures |-> 0, measures |-> <<>>]

\* the note pipeline at rest, while another part of the program is examined
PipelineIdle ==
    /\ rawNote = IdleNote
    /\ note = IdleNote
    /\ prevNote = IdleNote
    /\ applied = 0
    /\ composition = IdleComposition
    /\ prev = IdleComposition
    /\ normCount = 0
    /\ encoded = FALSE
    /\ abc = IdleAbc
    /\ xml = IdleXml

\* the App component as it is mounted: App.tsx 29, 55, 57
AppIdle ==
    /\ currentComposition = <<>>
    /\ history = <<>>
    /\ selectedInstruments = <<"Piano">>
    /\ idsIssued = 0
    /\ editCount = 0

\* no import has been started
IdleWaveform == [sampleRate |-> 44100, length |-> 0, runs |-> <<>>]

AudioIdle ==
    /\ waveform = IdleWaveform
    /\ scanPhase = "idle"
    /\ frameIndex = 0
    /\ pitches = <<>>
    /\ reports = <<>>
    /\ sinceYield = 0
    /\ hostRan = FALSE
    /\ rawNotes = <<>>
    /\ importResult = <<>>

\* no export has been started
PdfIdle ==
    /\ rasterized = <<>>
    /\ pagesData = <<>>
    /\ pdfPhase = "idle"
    /\ pagesWritten = 0 - 1
    /\ chunks = <<>>
    /\ byteLength = 0
    /\ offsets = <<>>
    /\ exporting = FALSE
    /\ downloaded = <<>>
    /\ exportFailed = FALSE

\* tempoFromStyle has not been called
TempoIdle ==
    /\ tempoStyle = <<>>
    /\ tempoTitle = <<>>
    /\ tempo = <<>>
    /\ prevTempo = <<>>
    /\ tempoCalls = 0

\* getWeightedNextDegree has not been called
DegreeIdle ==
    /\ styleKey = "BEETHOVEN"
    /\ currentRootDegree = 0
    /\ degreeArg = <<>>
    /\ degreeDraw = <<>>
    /\ degreeCalls = 0

IdleDraws ==
    [move |-> 0, direction |-> 0, leap |-> 0, velocity |-> 0, fingering |-> 0,
     dynamic |-> 0, chord |-> 0, degree |-> 0, title |-> 0]

IdleMelodyArgs == [scale |-> <<>>, length |-> 0, rhythmicStyle |-> "simple", range |-> <<0, 0>>]

\* generateStochasticMelody has not been called
MelodyIdle ==
    /\ draws = IdleDraws
    /\ cellTape = <<0>>
    /\ melodyPhase = "idle"
    /\ melodyArgs = IdleMelodyArgs
    /\ currentTime = 0
    /\ melodyNotes = <<>>
    /\ lastPitchIndex = 0
    /\ cellsDrawn = 0

IdleGenArgs == [style |-> <<>>, title |-> <<>>, userName |-> ""]

\* proceduralCompose has not been called
ComposeIdle ==
    /\ genPhase = "idle"
    /\ genArgs = IdleGenArgs
    /\ section = 0
    /\ seedMotif = <<>>
    /\ genTracks = <<<<>>, <<>>>>
    /\ totalAbc = <<>>
    /\ genResult = <<>>

\* the generator has not been called
GenIdle == DegreeIdle /\ MelodyIdle /\ ComposeIdle

\* withRetry has not been called
RetryIdle ==
    /\ retryPhase = "idle"
    /\ retries = 0
    /\ delay = 0
    /\ calls = 0
    /\ waits = <<>>
    /\ failures = <<>>
    /\ retryArgs = <<>>
    /\ retryResult = <<>>

\* midiToAbc has not been called on its own
SymbolIdle ==
    /\ symbolPitches = <<60, 60>>
    /\ symbols = <<>>

SideIdle == AppIdle /\ AudioIdle /\ PdfIdle /\ TempoIdle /\ GenIdle /\ RetryIdle /\ SymbolIdle

----------------------------------------------------------------------------
(* Specification of normalizeNote applied to one note *)

InitNote ==
    /\ rawNote \in NoteDomain
    /\ note = rawNote
    /\ prevNote = rawNote
    /\ applied = 0
    /\ composition = IdleComposition
    /\ prev = IdleComposition
    /\ normCount = 0
    /\ encoded = FALSE
    /\ abc = IdleAbc
    /\ xml = IdleXml
    /\ SideIdle

\* normalizeNote is applied to the note, and then to its own result
NormalizeNote ==
    /\ applied < 2
    /\ prevNote' = note
    /\ note' = normalizeNote(note)
    /\ applied' = applied + 1
    /\ UNCHANGED <<rawNote, compVars, encVars, sideVars>>

NextNote == NormalizeNote

SpecNote == InitNote /\ [][NextNote]_vars

----------------------------------------------------------------------------
(* Specification of normalizeComposition on a composition that arrives from *)
(* a collaborator: tracks and notes are received, then it is normalized     *)

TotalNotes(c) == Len(FlatNotes(c.tracks))

Init ==
    /\ rawNote = IdleNote
    /\ note = IdleNote
    /\ prevNote = IdleNote
    /\ applied = 0
    /\ composition = IdleComposition
    /\ prev = IdleComposition
    /\ normCount = 0
    /\ encoded = FALSE
    /\ abc = IdleAbc
    /\ xml = IdleXml
    /\ SideIdle

AddTrack(inst) ==
    /\ normCount = 0
    /\ ~encoded
    /\ Len(composition.tracks) < MaxTracks
    /\ composition' = [composition EXCEPT !.tracks = Append(@, Track(inst))]
    /\ prev' = composition'
    /\ UNCHANGED <<normCount, noteVars, encVars, sideVars>>

AddNote(n) ==
    /\ normCount = 0
    /\ ~encoded
    /\ Len(composition.tracks) > 0
    /\ TotalNotes(composition) < MaxNotes
    /\ composition' = [composition EXCEPT
                          !.tracks[Len(composition.tracks)].notes = Append(@, n)]
    /\ prev' = composition'
    /\ UNCHANGED <<normCount, noteVars, encVars, sideVars>>

Normalize ==
    /\ normCount < 2
    /\ ~encoded
    /\ prev' = composition
    /\ composition' = normalizeComposition(composition)
    /\ normCount' = normCount + 1
    /\ UNCHANGED <<noteVars, encVars, sideVars>>

Next ==
    \/ \E inst \in Instruments : AddTrack(inst)
    \/ \E n \in CompositionNotes : AddNote(n)
    \/ Normalize

Spec == Init /\ [][Next]_vars

----------------------------------------------------------------------------
(* Specification of the two encoders: a composition is received, normalized *)
(* and then encoded as notation text and as score XML                       *)

InitEnc ==
    /\ rawNote = IdleNote
    /\ note = IdleNote
    /\ prevNote = IdleNote
    /\ applied = 0
    /\ composition = [tracks |-> <<Track("Piano")>>]
    /\ prev = [tracks |-> <<Track("Piano")>>]
    /\ normCount = 0
    /\ encoded = FALSE
    /\ abc = IdleAbc
    /\ xml = IdleXml
    /\ SideIdle

Encode ==
    /\ normCount >= 1
    /\ ~encoded
    /\ encoded' = TRUE
    /\ abc' = syncAbcNotation(composition)
    /\ xml' = generateMusicXml(composition)
    /\ UNCHANGED <<noteVars, compVars, sideVars>>

NextEnc ==
    \/ \E n \in EncoderNotes : AddNote(n)
    \/ Normalize
    \/ Encode

SpecEnc == InitEnc /\ [][NextEnc]_vars

----------------------------------------------------------------------------
(* Claims about the splitter and normalizeComposition (Spec) *)

\* how often x occurs in the sequence s
Count(s, x) == Cardinality({i \in 1..Len(s) : s[i] = x})

Range(s) == {s[i] : i \in 1..Len(s)}

\* the last normalizeComposition went through splitToGrandStaff
SplitApplied ==
    /\ normCount >= 1
    /\ Len(prev.tracks) >= 1
    /\ ~(Len(prev.tracks) > 2 /\ ~sameInstrument(prev.tracks))

\* C1: splitToGrandStaff places every note of the merged tracks in exactly one
\* of the two voices, the upper one if its pitch is >= 60 and the lower one if
\* it is < 60; the two voices together hold the input notes (with normalized
\* timing) as a multiset: none lost, none duplicated.  The splitter of the
\* score-XML encoder partitions the same way, without touching the timing.
PartitionComplete ==
    SplitApplied =>
        LET input == MapSeq(FlatNotes(prev.tracks), normalizeNote)
            rh == composition.tracks[1].notes
            lh == composition.tracks[2].notes
        IN /\ Len(composition.tracks) = 2
           /\ \A i \in 1..Len(rh) : rh[i].pitch >= 60
           /\ \A i \in 1..Len(lh) : lh[i].pitch < 60
           /\ Len(rh) + Len(lh) = Len(input)
           /\ LET raw == FlatNotes(prev.tracks)
                  x == XmlSplitToGrandStaff(prev.tracks)
              IN /\ \A i \in 1..Len(x.rh) : x.rh[i].pitch >= 60
                 /\ \A i \in 1..Len(x.lh) : x.lh[i].pitch < 60
                 /\ \A n \in Range(raw) \cup Range(x.rh) \cup Range(x.lh) :
                        Count(x.rh, n) + Count(x.lh, n) = Count(raw, n)
           /\ \A x \in Range(input) \cup Range(rh) \cup Range(lh) :
                  /\ Count(rh, x) + Count(lh, x) = Count(input, x)
                  /\ x.pitch >= 60 => Count(lh, x) = 0
                  /\ x.pitch < 60 => Count(rh, x) = 0

\* two tracks were merged and split: a note at middle C went up, a note below
\* it went down
PartitionCompleteWitness ==
    /\ normCount = 1
    /\ Len(prev.tracks) = 2
    /\ Len(prev.tracks[1].notes) = 1
    /\ Len(prev.tracks[2].notes) = 1
    /\ prev.tracks[1].notes[1].pitch = 59
    /\ prev.tracks[2].notes[1].pitch = 60
    /\ Len(composition.tracks[1].notes) = 1
    /\ Len(composition.tracks[2].notes) = 1

\* C5: grand-staff splitting is idempotent: normalizing a normalized
\* composition again yields the same tracks (instruments, volumes and the
\* same notes in the same order in each voice).
SplitIdempotent ==
    normCount = 2 => composition.tracks = prev.tracks

\* a composition whose upper voice holds two different notes with equal start
\* and pitch was split a second time
SplitIdempotentWitness ==
    /\ normCount = 2
    /\ Len(prev.tracks) = 2
    /\ Len(prev.tracks[1].notes) = 2
    /\ prev.tracks[1].notes[1].time = prev.tracks[1].notes[2].time
    /\ prev.tracks[1].notes[1].pitch = prev.tracks[1].notes[2].pitch
    /\ prev.tracks[1].notes[1] # prev.tracks[1].notes[2]

InstrumentLabels(c) == {c.tracks[i].instrument : i \in 1..Len(c.tracks)}

TwoVoiceSplit(c) ==
    LET s == splitToGrandStaff(c.tracks) IN <<s.rh, s.lh>>

\* C6 (as stated): normalizeComposition skips splitting exactly when the
\* tracks use more than two distinct instrument labels, returning the track
\* list unchanged; in every other case with at least one track (three tracks
\* using two instruments, say) the result is the two-voice split.
SkipsExactlyOnMoreThanTwoLabels ==
    (normCount >= 1 /\ Len(prev.tracks) >= 1) =>
        IF Cardinality(InstrumentLabels(prev)) > 2
        THEN composition = prev
        ELSE composition.tracks = TwoVoiceSplit(prev)

\* C6 (amended): normalizeComposition skips splitting exactly when there are
\* more than two tracks and they do not all carry the same instrument label,
\* returning the composition unchanged (three tracks using two instruments
\* are left as they are); in every other case with at least one track the
\* result is the two-voice split, and with no track the track list is empty.
SkipsExactlyOnMoreThanTwoMixedTracks ==
    normCount >= 1 =>
        IF Len(prev.tracks) > 2 /\ Cardinality(InstrumentLabels(prev)) > 1
        THEN composition = prev
        ELSE IF Len(prev.tracks) >= 1
        THEN composition.tracks = TwoVoiceSplit(prev)
        ELSE composition.tracks = <<>>

\* three tracks using two instruments were normalized and came back unchanged,
\* although splitting would have changed them
SkipsExactlyOnMoreThanTwoMixedTracksWitness ==
    /\ normCount = 1
    /\ Len(prev.tracks) = 3
    /\ Cardinality(InstrumentLabels(prev)) = 2
    /\ TotalNotes(prev) > 0
    /\ composition = prev
    /\ composition.tracks # TwoVoiceSplit(prev)

----------------------------------------------------------------------------
(* Claims about the encoders (SpecEnc) *)

\* reading the notation text: the length of a token in grid ticks
\* (the unit note length is L:1/8, two grid ticks)
AbcTokenTicks(token) ==
    LET num == IF token.length.num = 0 THEN 1 ELSE token.length.num
        den == IF token.length.den = 0 THEN 1 ELSE token.length.den
    IN (2 * num) \div den

RECURSIVE AbcTicksBefore(_, _)
AbcTicksBefore(tokens, k) ==
    IF k <= 1 THEN 0 ELSE AbcTicksBefore(tokens, k - 1) + AbcTokenTicks(tokens[k - 1])

\* the tokens of one voice of the notation text, with the interval of time
\* (in 1/32 beat) each one occupies as the text is read
AbcEvents(voice) ==
    LET bars == SelectSeq(abc.body, LAMBDA it : it.item = "bar" /\ it.voice = voice)
    IN UNION {
         {[start |-> (bars[b].measure * ticksPerMeasure
                        + AbcTicksBefore(bars[b].tokens, k)) * TIME_GRID,
           length |-> AbcTokenTicks(bars[b].tokens[k]) * TIME_GRID,
           rest |-> bars[b].tokens[k].rest,
           chord |-> bars[b].tokens[k].chord,
           pitches |-> bars[b].tokens[k].pitches]
            : k \in 1..Len(bars[b].tokens)}
         : b \in 1..Len(bars)}

\* reading the score XML: the elements of one staff in one measure
XmlStaff(measure, staff) == SelectSeq(measure.notes, LAMBDA e : e.staff = staff)

\* the ticks by which the elements before the k-th advance the time (a
\* <chord/> element does not advance it)
RECURSIVE XmlTicksBefore(_, _)
XmlTicksBefore(elements, k) ==
    IF k <= 1 THEN 0
    ELSE XmlTicksBefore(elements, k - 1)
           + (IF elements[k - 1].chord THEN 0 ELSE elements[k - 1].duration)

\* the pitches of the simultaneity starting at element k: its own and those of
\* the <chord/> elements that follow it
RECURSIVE XmlChordFrom(_, _)
XmlChordFrom(elements, k) ==
    IF k > Len(elements) \/ ~elements[k].chord THEN <<>>
    ELSE <<elements[k].pitch>> \o XmlChordFrom(elements, k + 1)

\* one tick of the score XML in 1/32 beat
XmlTick == BEAT \div DIVISIONS

\* the simultaneities and rests of one staff of the score XML, with the
\* interval of time (in 1/32 beat) each one occupies as the document is read
XmlEvents(staff) ==
    UNION {
      LET elements == XmlStaff(xml.measures[m], staff)
      IN {[start |-> ((m - 1) * TICKS_PER_MEASURE + XmlTicksBefore(elements, k)) * XmlTick,
           length |-> elements[k].duration * XmlTick,
           rest |-> elements[k].rest,
           chord |-> k < Len(elements) /\ elements[k + 1].chord,
           pitches |-> IF elements[k].rest THEN <<>>
                       ELSE <<elements[k].pitch>> \o XmlChordFrom(elements, k + 1)]
            : k \in {k \in 1..Len(elements) : ~elements[k].chord}}
      : m \in 1..Len(xml.measures)}

\* the notes of a voice of the encoded (normalized, split) composition:
\* 1 is the upper voice, 2 the lower
VoiceNotes(v) == composition.tracks[v].notes

VoiceName(v) == IF v = 1 THEN "RH" ELSE "LH"

\* the notes of the voice that start at the given time, in their order
StartingAt(v, t) == SelectSeq(VoiceNotes(v), LAMBDA n : n.time = t)

LongestOf(notes) == SetMax({notes[i].duration : i \in 1..Len(notes)})

SameMeasureCount ==
    encoded =>
        /\ abc.totalMeasures = xml.totalMeasures
        /\ Len(SelectSeq(abc.body, LAMBDA it : it.item = "bar" /\ it.voice = "RH"))
             = Len(xml.measures)

\* the multiples of the XML tick inside an interval of time
PositionsOf(e) == {e.start + i * XmlTick : i \in 0..((e.length \div XmlTick) - 1)}

RestCovers(events, pos) ==
    \E e \in events : e.rest /\ e.start <= pos /\ pos < e.start + e.length

\* C9: for the same note set and for each voice, whenever one encoder emits a
\* rest covering a beat position, the other encoder emits a rest covering that
\* position too.
SameSilencePlacement ==
    encoded =>
        \A v \in {1, 2} :
            /\ \A e \in AbcEvents(VoiceName(v)) :
                  e.rest => \A pos \in PositionsOf(e) : RestCovers(XmlEvents(v), pos)
            /\ \A e \in XmlEvents(v) :
                  e.rest => \A pos \in PositionsOf(e) : RestCovers(AbcEvents(VoiceName(v)), pos)

\* C10: the encoders never drop a note: every note is a member of the
\* simultaneity emitted at its start time in the output of its voice, also
\* when it starts while an earlier, longer note of the voice is sounding.
NoNoteDropped ==
    encoded =>
        \A v \in {1, 2} :
            \A i \in 1..Len(VoiceNotes(v)) :
                LET n == VoiceNotes(v)[i]
                IN /\ \E e \in AbcEvents(VoiceName(v)) :
                        /\ ~e.rest
                        /\ e.start = n.time
                        /\ \E j \in 1..Len(e.pitches) : e.pitches[j] = midiToAbc(n.pitch)
                   /\ \E e \in XmlEvents(v) :
                        /\ ~e.rest
                        /\ e.start = n.time
                        /\ \E j \in 1..Len(e.pitches) : e.pitches[j] = midiToPitch(n.pitch)

----------------------------------------------------------------------------
(* Claims about normalizeNote (SpecNote) *)

\* the result of the first application of normalizeNote to rawNote
FirstNormalized == IF applied = 1 THEN note ELSE prevNote

\* C2: quantization is idempotent: applying normalizeNote to an already
\* normalized note changes neither its time, duration, velocity nor pitch.
QuantizeIdempotent ==
    applied = 2 =>
        /\ note.time = prevNote.time
        /\ note.duration = prevNote.duration
        /\ note.velocity = prevNote.velocity
        /\ note.pitch = prevNote.pitch

\* an off-grid note with no velocity was normalized twice
QuantizeIdempotentWitness ==
    /\ applied = 2
    /\ rawNote.time = 3
    /\ rawNote.duration = 12
    /\ rawNote.velocity = <<>>
    /\ prevNote # rawNote

\* C3 (as stated): time and duration are rounded to the nearest multiple of
\* 1/16 beat, duration raised to one such unit and time to 0; a time of 1/16
\* beat stays 1/16 beat and a duration of 1/16 beat stays 1/16 beat.
SixteenthBeatGrid ==
    applied >= 1 =>
        LET g == BEAT \div 16
        IN /\ FirstNormalized.time = Max2(0, MathRound(rawNote.time, g) * g)
           /\ FirstNormalized.duration = Max2(g, MathRound(rawNote.duration, g) * g)

\* C3 (amended): time and duration are rounded to the nearest multiple of the
\* grid unit of 1/4 beat (halves rounded up), then duration is raised to at
\* least one grid unit and time to at least 0; a time of 1/16 beat becomes 0
\* and a duration of 1/16 beat becomes 1/4 beat.
QuarterBeatGrid ==
    applied >= 1 =>
        LET n == FirstNormalized
            dt == n.time - rawNote.time
            dd == n.duration - rawNote.duration
        IN /\ n.time % TIME_GRID = 0
           /\ n.time >= 0
           /\ n.duration % TIME_GRID = 0
           /\ n.duration >= TIME_GRID
           /\ rawNote.time >= 0 => /\ 2 * Abs(dt) <= TIME_GRID
                                   /\ 2 * Abs(dt) = TIME_GRID => dt > 0
           /\ rawNote.time < 0 => n.time = 0
           /\ 2 * rawNote.duration >= TIME_GRID => /\ 2 * Abs(dd) <= TIME_GRID
                                                   /\ 2 * Abs(dd) = TIME_GRID => dd > 0
           /\ 2 * rawNote.duration < TIME_GRID => n.duration = TIME_GRID
           /\ 16 * rawNote.time = BEAT => n.time = 0
           /\ 16 * rawNote.duration = BEAT => 4 * n.duration = BEAT

\* a note starting at 1/16 beat and lasting 1/16 beat was normalized
QuarterBeatGridWitness ==
    /\ applied = 1
    /\ 16 * rawNote.time = BEAT
    /\ 16 * rawNote.duration = BEAT
    /\ note.time = 0
    /\ note.duration = TIME_GRID

\* C4: after normalization every note's pitch lies in 0..127 and its velocity
\* in [0.05, 1], whatever the input pitch and velocity were.
PitchAndVelocityInDomain ==
    applied >= 1 =>
        /\ note.pitch \in 0..127
        /\ note.velocity # <<>>
        /\ note.velocity[1] >= VELOCITY_MIN
        /\ note.velocity[1] <= VELOCITY_MAX

----------------------------------------------------------------------------
(* Specification of the encoders on pieces that run past the minimum page   *)
(* of 32 measures (128 beats)                                               *)

\* notes of a long piece: starts at the beginning, in measure 31 (beat 127)
\* and off the grid in measure 32 (beat 128 + 1/8); lengths that stay inside
\* the measure and lengths that reach into the next one
LongPitches == {48, 64}
LongTimes == {0, 127 * BEAT, 128 * BEAT + 4}
LongDurations == {30, 64}

LongNotes ==
    {Note(p, t, d, <<VELOCITY_DEFAULT>>) :
        p \in LongPitches, t \in LongTimes, d \in LongDurations}

NextLong ==
    \/ \E n \in LongNotes : AddNote(n)
    \/ Normalize
    \/ Encode

SpecLong == InitEnc /\ [][NextLong]_vars

----------------------------------------------------------------------------
(* Claims about the measure count of the notation text (SpecLong) *)

\* end of the last note of the encoded composition, in 1/32 beat; the
\* composition is normalized, so starts and lengths are the quantized ones
LastNoteEnd ==
    LET all == FlatNotes(composition.tracks)
    IN IF Len(all) = 0 THEN 0
       ELSE SetMax({all[i].time + all[i].duration : i \in 1..Len(all)})

UpperVoiceMeasures ==
    SelectSeq(abc.body, LAMBDA it : it.item = "bar" /\ it.voice = "RH")

\* C11: the notation text has max(32, ceil(lastNoteEnd / 4 beats)) measures,
\* lastNoteEnd being the largest quantized start + duration over both voices,
\* and its body holds exactly that many measures of the upper voice, one for
\* each measure index in order.
MeasureCount ==
    encoded =>
        /\ abc.totalMeasures = Max2(32, MathCeil(LastNoteEnd, 4 * BEAT))
        /\ Len(UpperVoiceMeasures) = abc.totalMeasures
        /\ \A k \in 1..Len(UpperVoiceMeasures) : UpperVoiceMeasures[k].measure = k - 1

\* a piece whose last note starts in measure 31 and ends in measure 32, so
\* that the count comes from the last note end and not from the minimum
MeasureCountWitness ==
    /\ encoded
    /\ abc.totalMeasures = 33
    /\ \E i \in 1..Len(FlatNotes(composition.tracks)) :
          /\ FlatNotes(composition.tracks)[i].time < 128 * BEAT
          /\ FlatNotes(composition.tracks)[i].time
                + FlatNotes(composition.tracks)[i].duration > 128 * BEAT

----------------------------------------------------------------------------
(* The App component: the composition state, its cached notation text and   *)
(* the history of generations.  App.tsx 29-70, 314-408, 598-662, 925-1060   *)

\* how many compositions are composed or imported in one run of the model
MaxCreated == 1

\* how many edits (note, title, subtitle, artist, instrument, history entry)
\* the user makes in one run of the model
MaxEdits == 2

\* next.slice(0, 20) in addToHistory
HISTORY_LIMIT == 20

Titles == {"Aria", "Etude"}
Subtitles == {"", "No. 1"}
ArtistNames == {"Ada"}
FileNames == {"Take"}
InstrumentButtons == {"Piano", "Violin"}

\* `${name.trim()} (${year})`, '' for a blank name
formatComposer(name) == IF name = "" THEN <<>> ELSE <<name, "(year)">>

\* the tracks composeMusic returns before it normalizes them
ComposedTracks ==
    <<[instrument |-> "Piano", volume |-> 100,
       notes |-> <<Note(64, 0, 32, <<VELOCITY_DEFAULT>>), Note(48, 0, 64, <<VELOCITY_DEFAULT>>)>>]>>

\* the track importAudioFile builds from the detected notes
ImportedTracks ==
    <<[instrument |-> "Piano", volume |-> 80,
       notes |-> <<Note(69, 0, 53, <<80>>)>>]>>

\* where the piano roll can drop a dragged note: off the grid
DropTimes == {12}

\* the header lines of the notation text that come from the composition
abcHeader(c) ==
    [title |-> c.title, subtitle |-> c.subtitle, composer |-> c.composer, tempo |-> c.tempo]

\* the whole text syncAbcNotation returns: header and body
abcText(c) == [header |-> abcHeader(c), score |-> syncAbcNotation(c)]

withAbc(c) == [c EXCEPT !.abcNotation = abcText(c)]

assignInstrumentsToTracks(tracks, selected) ==
    LET fallback == IF Len(selected) > 0 THEN selected ELSE <<"Piano">>
        ordered == IF Len(fallback) > 1
                   THEN <<fallback[Len(fallback)]>> \o SubSeq(fallback, 1, Len(fallback) - 1)
                   ELSE fallback
    IN [idx \in 1..Len(tracks) |->
          [tracks[idx] EXCEPT !.instrument = ordered[((idx - 1) % Len(ordered)) + 1]]]

\* current === instrumentLabel: the first track's instrument against the
\* selected instruments joined with ", "
matchesInstrumentLabel(c, selected) ==
    /\ Len(c.tracks) > 0
    /\ Len(selected) = 1
    /\ c.tracks[1].instrument = selected[1]

addToHistory(comp) ==
    LET withId == [comp EXCEPT !.id = <<idsIssued + 1>>]
        next == <<withId>> \o history
    IN SubSeq(next, 1, Min2(HISTORY_LIMIT, Len(next)))

InitApp ==
    /\ PipelineIdle
    /\ SideIdle

\* handleCompose, with the form filled in
Compose(title, subtitle, userName) ==
    /\ idsIssued < MaxCreated
    /\ LET result == [title |-> title, subtitle |-> "", composer |-> <<>>, tempo |-> 96,
                      tracks |-> normalizeComposition([tracks |-> ComposedTracks]).tracks,
                      abcNotation |-> <<>>, id |-> <<>>]
           composed == withAbc([result EXCEPT
                          !.subtitle = IF subtitle # "" THEN subtitle ELSE @,
                          !.composer = formatComposer(userName),
                          !.tracks = assignInstrumentsToTracks(@, selectedInstruments)])
       IN /\ currentComposition' = <<composed>>
          /\ history' = addToHistory(composed)
    /\ idsIssued' = idsIssued + 1
    /\ UNCHANGED <<selectedInstruments, editCount, notAppVars>>

\* the audio file input's onChange, when importAudioFile returns a composition
ImportAudio(fileName) ==
    /\ idsIssued < MaxCreated
    /\ LET imported == [title |-> fileName, subtitle |-> "", composer |-> <<"Audio Import">>,
                        tempo |-> 100,
                        tracks |-> normalizeComposition([tracks |-> ImportedTracks]).tracks,
                        abcNotation |-> <<>>, id |-> <<>>]
           comp == withAbc([imported EXCEPT
                          !.tracks = assignInstrumentsToTracks(@, selectedInstruments)])
       IN /\ currentComposition' = <<comp>>
          /\ history' = addToHistory(comp)
    /\ idsIssued' = idsIssued + 1
    /\ UNCHANGED <<selectedInstruments, editCount, notAppVars>>

\* handleUpdateNote: the piano roll drops a dragged note
UpdateNote(trackIndex, noteIndex, time) ==
    /\ editCount < MaxEdits
    /\ editCount' = editCount + 1
    /\ currentComposition # <<>>
    /\ trackIndex \in 1..Len(currentComposition[1].tracks)
    /\ noteIndex \in 1..Len(currentComposition[1].tracks[trackIndex].notes)
    /\ LET c == currentComposition[1]
           updatedNote == [c.tracks[trackIndex].notes[noteIndex] EXCEPT !.time = Max2(0, time)]
           newComposition == [c EXCEPT !.tracks[trackIndex].notes[noteIndex] = updatedNote]
       IN currentComposition' = <<withAbc(newComposition)>>
    /\ UNCHANGED <<history, selectedInstruments, idsIssued, notAppVars>>

\* onChange of the title input
EditTitle(newTitle) ==
    /\ editCount < MaxEdits
    /\ editCount' = editCount + 1
    /\ currentComposition # <<>>
    /\ currentComposition' = <<withAbc([currentComposition[1] EXCEPT !.title = newTitle])>>
    /\ UNCHANGED <<history, selectedInstruments, idsIssued, notAppVars>>

\* onChange of the subtitle input
EditSubtitle(next) ==
    /\ editCount < MaxEdits
    /\ editCount' = editCount + 1
    /\ currentComposition # <<>>
    /\ currentComposition' = <<withAbc([currentComposition[1] EXCEPT !.subtitle = next])>>
    /\ UNCHANGED <<history, selectedInstruments, idsIssued, notAppVars>>

\* onChange of the artist name input
EditArtist(newName) ==
    /\ editCount < MaxEdits
    /\ editCount' = editCount + 1
    /\ currentComposition # <<>>
    /\ currentComposition' =
          <<withAbc([currentComposition[1] EXCEPT !.composer = formatComposer(newName)])>>
    /\ UNCHANGED <<history, selectedInstruments, idsIssued, notAppVars>>

\* onClick of an instrument button, and the effect that follows the change
\* of selectedInstruments
ToggleInstrument(inst) ==
    /\ editCount < MaxEdits
    /\ editCount' = editCount + 1
    /\ LET included == \E i \in 1..Len(selectedInstruments) : selectedInstruments[i] = inst
           next == SelectSeq(selectedInstruments, LAMBDA i : i # inst)
           selected == IF included
                       THEN (IF Len(next) > 0 THEN next ELSE <<inst>>)
                       ELSE IF selectedInstruments = <<"Piano">>
                            THEN <<inst>>
                            ELSE Append(selectedInstruments, inst)
       IN /\ selectedInstruments' = selected
          /\ currentComposition' =
                IF currentComposition = <<>> THEN currentComposition
                ELSE IF matchesInstrumentLabel(currentComposition[1], selected)
                     THEN currentComposition
                     ELSE <<withAbc([currentComposition[1] EXCEPT
                              !.tracks = assignInstrumentsToTracks(@, selected)])>>
    /\ UNCHANGED <<history, idsIssued, notAppVars>>

\* updateHistory, called by Save in the history editor; the drafts of the
\* subtitle and the artist are left as the editor filled them in
UpdateHistory(k, title) ==
    /\ editCount < MaxEdits
    /\ editCount' = editCount + 1
    /\ k \in 1..Len(history)
    /\ LET id == history[k].id
           updated(h) == [h EXCEPT !.title = title,
                                   !.subtitle = history[k].subtitle,
                                   !.composer = history[k].composer]
       IN /\ history' = [j \in 1..Len(history) |->
                            IF history[j].id = id THEN updated(history[j]) ELSE history[j]]
          /\ currentComposition' =
                IF currentComposition # <<>> /\ currentComposition[1].id = id
                THEN <<withAbc(updated(currentComposition[1]))>>
                ELSE currentComposition
    /\ UNCHANGED <<selectedInstruments, idsIssued, notAppVars>>

\* Open in the history list
OpenHistory(k) ==
    /\ k \in 1..Len(history)
    /\ currentComposition' = <<history[k]>>
    /\ UNCHANGED <<history, selectedInstruments, idsIssued, editCount, notAppVars>>

NextApp ==
    \/ \E t \in Titles, s \in Subtitles, u \in ArtistNames : Compose(t, s, u)
    \/ \E f \in FileNames : ImportAudio(f)
    \/ \E ti \in 1..2, ni \in 1..2, t \in DropTimes : UpdateNote(ti, ni, t)
    \/ \E t \in Titles : EditTitle(t)
    \/ \E s \in Subtitles : EditSubtitle(s)
    \/ \E u \in ArtistNames : EditArtist(u)
    \/ \E inst \in InstrumentButtons : ToggleInstrument(inst)
    \/ \E k \in 1..MaxCreated, t \in Titles : UpdateHistory(k, t)
    \/ \E k \in 1..MaxCreated : OpenHistory(k)

SpecApp == InitApp /\ [][NextApp]_vars

----------------------------------------------------------------------------
(* Claims about the cached notation text (SpecApp) *)

\* C12: in every state of the application the cached abcNotation of the
\* current composition, and of every composition that can be opened from the
\* history, is syncAbcNotation of that composition's other fields.
CachedNotationInSync ==
    /\ currentComposition # <<>> =>
          currentComposition[1].abcNotation = abcText(currentComposition[1])
    /\ \A k \in 1..Len(history) : history[k].abcNotation = abcText(history[k])

----------------------------------------------------------------------------
(* Audio transcriber: audioImport.ts 39-144, and importMidiFile.            *)
(*                                                                          *)
(* A waveform is its sample rate, its length in samples and, as the outcome *)
(* of autocorrelate and frequencyToMidi on each frame, the pitch of every   *)
(* frame: runs of frames holding one MIDI pitch (<<p>>) or silence (<<>>).  *)
(* Times of frames and of raw notes are counted in samples; the waveform's  *)
(* sample rate turns them into seconds.                                     *)

\* how many runs a short waveform is made of
MaxRuns == 2

DEFAULT_TEMPO == 100
\* 0.12 s, in hundredths of a second
MIN_NOTE_SECONDS == 12
frameSize == 2048
hopSize == 512
\* frameIndex % 20 === 0
REPORT_EVERY == 20
\* frameIndex % 200 === 0
YIELD_EVERY == 200

SampleRates == {44100, 48000}

\* 11 frames are 0.128 s at 44100 Hz and 0.117 s at 48000 Hz
ShortRunFrames == {2, 11, 12}
LongRunFrames == {20, 201, 401}
FramePitches == {<<>>, <<69>>, <<71>>}

\* samples after the start of the last frame, beyond the frame itself:
\* 512 when the length minus frameSize is a multiple of hopSize
Tails == {1, 512}

Run(midi, frames) == [midi |-> midi, frames |-> frames]

ShortRuns == {Run(m, f) : m \in FramePitches, f \in ShortRunFrames}
LongRuns == {Run(m, f) : m \in {<<>>, <<69>>}, f \in LongRunFrames}

Plans ==
    UNION {[1..n -> ShortRuns] : n \in 0..MaxRuns} \cup {<<r>> : r \in LongRuns}

RECURSIVE PlanFrames(_)
PlanFrames(runs) ==
    IF runs = <<>> THEN 0 ELSE runs[1].frames + PlanFrames(Tail(runs))

\* the pitch the autocorrelation finds in frame k (k = 1, 2, ...)
RECURSIVE midiOfFrame(_, _)
midiOfFrame(runs, k) ==
    IF runs = <<>> THEN <<>>
    ELSE IF k <= runs[1].frames THEN runs[1].midi
    ELSE midiOfFrame(Tail(runs), k - runs[1].frames)

Waveform(rate, runs, tail) ==
    [sampleRate |-> rate,
     length |-> frameSize + hopSize * (PlanFrames(runs) - 1) + tail,
     runs |-> runs]

Waveforms == {Waveform(rate, runs, tail) : rate \in SampleRates, runs \in Plans, tail \in Tails}

\* Math.max(1, Math.floor((channelData.length - frameSize) / hopSize))
totalFrames(w) == Max2(1, (w.length - frameSize) \div hopSize)

\* mutant of longEnough: every run becomes a note
anyLength(duration, sampleRate) == TRUE

\* duration >= MIN_NOTE_SECONDS, the duration being counted in samples.  The
\* code subtracts two rounded quotients i / sampleRate; at the sample rates
\* of the model no multiple of hopSize lasts exactly 0.12 s, so the rounding
\* cannot change the comparison.
longEnough(duration, sampleRate) == duration * 100 >= MIN_NOTE_SECONDS * sampleRate

\* the first index from i on whose frame does not hold currentMidi (the
\* frames before it take the `continue`), Len(track) + 1 when there is none
nextChange(track, i, currentMidi) ==
    SetMin({j \in i..Len(track) : track[j].midi # currentMidi} \cup {Len(track) + 1})

\* the loop of buildNotesFromPitchTrack from index i on
RECURSIVE buildNotesFrom(_, _, _, _, _, _)
buildNotesFrom(track, sampleRate, i, currentMidi, startTime, notes) ==
    LET j == nextChange(track, i, currentMidi)
    IN IF j > Len(track) THEN notes
       ELSE LET duration == track[j].time - startTime
                pushed ==
                    IF currentMidi # <<>> /\ longEnough(duration, sampleRate)
                    THEN Append(notes, [pitch |-> currentMidi[1], time |-> startTime,
                                        duration |-> duration, velocity |-> <<80>>])
                    ELSE notes
            IN buildNotesFrom(track, sampleRate, j + 1, track[j].midi, track[j].time, pushed)

buildNotesFromPitchTrack(track, sampleRate) ==
    buildNotesFrom(track, sampleRate, 1, <<>>, 0, <<>>)

\* toBeats (seconds * (DEFAULT_TEMPO / 60)) followed by quantize, in 1/32
\* beat: round(beats / 0.25) grid steps.  normalizeNote quantizes the value
\* again, which leaves it as it is.
beatsOnGrid(samples, sampleRate) ==
    MathRound(samples * DEFAULT_TEMPO * BEAT, 60 * sampleRate * TIME_GRID) * TIME_GRID

Returned(c) == <<[kind |-> "composition", composition |-> c, message |-> ""]>>
Thrown(message) == <<[kind |-> "error", composition |-> IdleComposition, message |-> message]>>

\* mutant of yieldsAfter: the scan never gives up the thread
yieldsNever(index) == FALSE

\* frameIndex % 200 === 0
yieldsAfter(index) == index % YIELD_EVERY = 0

InitAudio ==
    /\ PipelineIdle
    /\ SideIdle

\* decodeAudioData succeeds; the scan is set up and reports progress 0
StartScan(w) ==
    /\ scanPhase = "idle"
    /\ importResult = <<>>
    /\ waveform' = w
    /\ scanPhase' = "scanning"
    /\ reports' = <<[num |-> 0, den |-> 1]>>
    /\ UNCHANGED <<frameIndex, pitches, sinceYield, hostRan, rawNotes, importResult, notAudioVars>>

\* decodeAudioData rejects
DecodeFails ==
    /\ scanPhase = "idle"
    /\ importResult = <<>>
    /\ scanPhase' = "done"
    /\ importResult' = Thrown("Failed to decode audio. Please use a valid MP3/WAV file.")
    /\ UNCHANGED <<waveform, frameIndex, pitches, reports, sinceYield, hostRan, rawNotes,
                   notAudioVars>>

\* one iteration of the frame loop
ScanFrame ==
    /\ scanPhase = "scanning"
    /\ frameIndex * hopSize + frameSize < waveform.length
    /\ pitches' = Append(pitches, [time |-> frameIndex * hopSize,
                                   midi |-> midiOfFrame(waveform.runs, frameIndex + 1)])
    /\ frameIndex' = frameIndex + 1
    /\ reports' = IF frameIndex' % REPORT_EVERY = 0
                  THEN Append(reports, [num |-> frameIndex', den |-> totalFrames(waveform)])
                  ELSE reports
    /\ IF yieldsAfter(frameIndex')
       THEN scanPhase' = "yielded" /\ sinceYield' = 0
       ELSE scanPhase' = "scanning" /\ sinceYield' = sinceYield + 1
    /\ UNCHANGED <<waveform, hostRan, rawNotes, importResult, notAudioVars>>

\* a task of the host (a repaint, a timer of the upload overlay) runs while
\* the scan waits for its setTimeout(0)
HostTask ==
    /\ scanPhase = "yielded"
    /\ ~hostRan
    /\ hostRan' = TRUE
    /\ UNCHANGED <<waveform, scanPhase, frameIndex, pitches, reports, sinceYield, rawNotes,
                   importResult, notAudioVars>>

\* the setTimeout(0) fires and the scan goes on
ResumeScan ==
    /\ scanPhase = "yielded"
    /\ scanPhase' = "scanning"
    /\ hostRan' = FALSE
    /\ UNCHANGED <<waveform, frameIndex, pitches, reports, sinceYield, rawNotes, importResult,
                   notAudioVars>>

\* the loop is over: notes, composition, final progress report, return
FinishScan ==
    /\ scanPhase = "scanning"
    /\ ~(frameIndex * hopSize + frameSize < waveform.length)
    /\ rawNotes' = buildNotesFromPitchTrack(pitches, waveform.sampleRate)
    /\ LET notes == [i \in 1..Len(rawNotes') |->
                        [rawNotes'[i] EXCEPT
                            !.time = beatsOnGrid(@, waveform.sampleRate),
                            !.duration = beatsOnGrid(@, waveform.sampleRate)]]
           track == [instrument |-> "Piano", volume |-> 80, notes |-> notes]
           composition0 == [title |-> "Take", subtitle |-> "", composer |-> <<"Audio Import">>,
                            tempo |-> DEFAULT_TEMPO,
                            tracks |-> normalizeComposition([tracks |-> <<track>>]).tracks,
                            abcNotation |-> <<>>, id |-> <<>>]
       IN importResult' = Returned(withAbc(composition0))
    /\ reports' = Append(reports, [num |-> 1, den |-> 1])
    /\ scanPhase' = "done"
    /\ UNCHANGED <<waveform, frameIndex, pitches, sinceYield, hostRan, notAudioVars>>

\* the tracks of a MIDI file as the parser returns them, times in 1/32 beat
MidiNote == Note(62, 32, 32, <<50>>)
SilentMidiNote == Note(50, 0, 33, <<0>>)
MidiTracks == {<<>>, <<MidiNote>>, <<SilentMidiNote, MidiNote>>}
MidiFiles == {<<>>} \cup {<<t>> : t \in MidiTracks} \cup {<<t, u>> : t, u \in MidiTracks}

\* velocity: n.velocity || 0.7
importMidiFile(midiTracks) ==
    LET kept == SelectSeq(midiTracks, LAMBDA t : Len(t) # 0)
        tracks == [k \in 1..Len(kept) |->
                     [instrument |-> "Piano", volume |-> 80,
                      notes |-> [i \in 1..Len(kept[k]) |->
                                   [kept[k][i] EXCEPT
                                      !.velocity = IF @ = <<0>> THEN <<70>> ELSE @]]]]
        composition0 == [title |-> "Take", subtitle |-> "", composer |-> <<"Imported MIDI">>,
                         tempo |-> 120,
                         tracks |-> normalizeComposition([tracks |-> tracks]).tracks,
                         abcNotation |-> <<>>, id |-> <<>>]
    IN IF Len(tracks) = 0
       THEN Thrown("No notes found in MIDI.")
       ELSE Returned(withAbc(composition0))

ImportMidi(midiTracks) ==
    /\ scanPhase = "idle"
    /\ importResult = <<>>
    /\ importResult' = importMidiFile(midiTracks)
    /\ scanPhase' = "done"
    /\ UNCHANGED <<waveform, frameIndex, pitches, reports, sinceYield, hostRan, rawNotes,
                   notAudioVars>>

NextAudio ==
    \/ \E w \in Waveforms : StartScan(w)
    \/ DecodeFails
    \/ ScanFrame
    \/ HostTask
    \/ ResumeScan
    \/ FinishScan
    \/ \E f \in MidiFiles : ImportMidi(f)

SpecAudio == InitAudio /\ [][NextAudio]_vars

----------------------------------------------------------------------------
(* Claims about the audio transcriber (SpecAudio) *)

\* C13: the progress values passed to the callback so far (the initial
\* report, one report every 20 frames, the final report) all lie in [0, 1]
\* and never decrease.
ProgressMonotoneInUnitInterval ==
    /\ \A k \in 1..Len(reports) :
          /\ reports[k].den > 0
          /\ 0 <= reports[k].num
          /\ reports[k].num <= reports[k].den
    /\ \A k \in 1..(Len(reports) - 1) :
          reports[k].num * reports[k + 1].den <= reports[k + 1].num * reports[k].den

\* C14: the scan gives up the thread after every 200 processed frames: the
\* frames processed since it last did so are the frames beyond the last
\* multiple of 200, never more than 200, and it waits at a yield point
\* exactly when a positive multiple of 200 frames has just been processed.
YieldsEvery200Frames ==
    /\ sinceYield <= 200
    /\ sinceYield = frameIndex % 200
    /\ scanPhase = "yielded" => frameIndex > 0 /\ frameIndex % 200 = 0
    /\ scanPhase = "scanning" /\ frameIndex > 0 /\ frameIndex % 200 = 0 => ~hostRan
    /\ hostRan => scanPhase = "yielded"

\* the scan waits at its second yield point, after 400 frames, and a host
\* task has run there
YieldsEvery200FramesWitness ==
    /\ scanPhase = "yielded"
    /\ frameIndex = 400
    /\ hostRan

\* the pitch track consists of a run of one pitch from the first frame on,
\* followed by silence up to the end
ToneThenSilence ==
    /\ Len(pitches) >= 2
    /\ pitches[1].midi # <<>>
    /\ pitches[Len(pitches)].midi = <<>>
    /\ \A i \in 1..(Len(pitches) - 1) :
          pitches[i].midi = pitches[1].midi \/ pitches[i + 1].midi = <<>>

FirstSilentFrame == CHOOSE i \in 1..Len(pitches) : pitches[i].midi = <<>> /\
                                \A j \in 1..(i - 1) : pitches[j].midi # <<>>

\* frames a .. b-1 hold the pitch p, the frame before a and the frame b do not
MaximalRun(a, b, p) ==
    /\ a < b
    /\ \A i \in a..(b - 1) : pitches[i].midi = <<p>>
    /\ a > 1 => pitches[a - 1].midi # <<p>>
    /\ pitches[b].midi # <<p>>

\* C15: a run of one pitch p from the first frame on, followed by silence,
\* gives exactly one note of pitch p at time 0 that lasts up to the first
\* silent frame when that is at least 0.12 s, and no note when it is less;
\* and every note of any pitch track is one whole run of equal-pitch frames,
\* from its first frame to the first frame after it.
SegmentationByRuns ==
    scanPhase = "done" /\ waveform # IdleWaveform =>
        /\ ToneThenSilence =>
              LET end == pitches[FirstSilentFrame].time
              IN IF end * 100 >= 12 * waveform.sampleRate
                 THEN rawNotes = <<[pitch |-> pitches[1].midi[1], time |-> 0,
                                    duration |-> end, velocity |-> <<80>>]>>
                 ELSE rawNotes = <<>>
        /\ \A n \in 1..Len(rawNotes) :
              \E a \in 1..Len(pitches), b \in 1..Len(pitches) :
                  /\ MaximalRun(a, b, rawNotes[n].pitch)
                  /\ rawNotes[n].time = pitches[a].time
                  /\ rawNotes[n].duration = pitches[b].time - pitches[a].time
        /\ \A n \in 1..(Len(rawNotes) - 1) : rawNotes[n].time < rawNotes[n + 1].time

\* 11 frames of the pitch 69 at 44100 Hz (0.128 s) followed by silence
SegmentationByRunsWitness ==
    /\ scanPhase = "done"
    /\ waveform.sampleRate = 44100
    /\ ToneThenSilence
    /\ FirstSilentFrame = 12
    /\ Len(rawNotes) = 1
    /\ rawNotes[1].pitch = 69
    /\ rawNotes[1].time = 0
    /\ rawNotes[1].duration = 11 * hopSize

\* C16: an import that finds no notes fails: whatever importAudioFile or
\* importMidiFile returns is a composition in which some track has a note,
\* and the failure for no notes is not the decode failure.
EmptyResultIsFailure ==
    importResult # <<>> =>
        /\ importResult[1].kind = "composition" =>
              \E t \in 1..Len(importResult[1].composition.tracks) :
                  Len(importResult[1].composition.tracks[t].notes) > 0
        /\ importResult[1].kind = "error" /\ waveform # IdleWaveform =>
              importResult[1].message # "Failed to decode audio. Please use a valid MP3/WAV file."

----------------------------------------------------------------------------
(* Document assembler: svgToJpegBytes, makePdfBlobFromJpegs, downloadPdf.   *)
(*                                                                          *)
(* The emitted stream is the sequence of chunks handed to writeBytes.  A    *)
(* chunk is the kind of text it holds, the object id or page it belongs to, *)
(* the number the text carries (a count or an offset) and its length in     *)
(* bytes, which is computed from the text as the code composes it.  The     *)
(* bytes of a page image are represented by their number.                   *)

\* how many pages a score has
MaxPages == 3

pageObjectStart == 3

\* a rasterized page: pixel size and number of JPEG bytes
PageImages ==
    {[width |-> 816, height |-> 1056, bytes |-> 70000],
     [width |-> 1, height |-> 1, bytes |-> 0],
     [width |-> 1333, height |-> 13334, bytes |-> 5]}

\* what svgToJpegBytes does with a page: it resolves, the image fails to
\* load, or the canvas gives no 2d context
RasterOutcomes == {"ok", "loadError", "noContext"}

SvgPages ==
    {[width |-> p.width, height |-> p.height, bytes |-> p.bytes, raster |-> o] :
        p \in PageImages, o \in RasterOutcomes}

PageLists(S) == UNION {[1..n -> S] : n \in 0..MaxPages}

\* length of the decimal text of n
RECURSIVE Digits(_)
Digits(n) == IF n < 10 THEN 1 ELSE 1 + Digits(n \div 10)

\* length of ((px * 72) / 96).toFixed(2): the value is a multiple of 0.25
toFixed2Length(px) == Digits((px * 72) \div 96) + 3

Chunk(text, id, value, len) == [text |-> text, id |-> id, value |-> value, len |-> len]

Writer(c, b, o) == [chunks |-> c, byteLength |-> b, offsets |-> o]

writeBytes(w, chunk) ==
    [w EXCEPT !.chunks = Append(@, chunk), !.byteLength = @ + chunk.len]

\* one byte for each character of the text
writeAscii(w, text, id, value, len) == writeBytes(w, Chunk(text, id, value, len))

\* mutant of beginObject: the offset is taken after the marker is written
beginObjectLate(w, id) ==
    LET written == writeAscii(w, "obj", id, 0, Digits(id) + 7)
    IN [written EXCEPT !.offsets = (id :> written.byteLength) @@ @]

\* offsets[id] = byteLength; writeAscii(`${id} 0 obj\n`)
beginObject(w, id) ==
    writeAscii([w EXCEPT !.offsets = (id :> w.byteLength) @@ @], "obj", id, 0, Digits(id) + 7)

endObject(w) == writeAscii(w, "endobj", 0, 0, 7)

\* length of the text kids for n pages: "3 0 R 6 0 R ..."
RECURSIVE kidsLength(_)
kidsLength(n) ==
    IF n = 0 THEN 0
    ELSE kidsLength(n - 1) + (IF n > 1 THEN 1 ELSE 0)
            + Digits(pageObjectStart + (n - 1) * 3) + 4

writeHead(w, pages) ==
    LET header == writeAscii(w, "header", 0, 0, 15)
        catalog == endObject(writeAscii(beginObject(header, 1), "catalog", 1, 0, 34))
        kids == kidsLength(Len(pages))
    IN endObject(writeAscii(beginObject(catalog, 2), "pages", 2, Len(pages),
                            23 + Digits(Len(pages)) + 8 + kids + 5))

\* the three objects of page i (i = 0, 1, ...)
writePageObject(w, i, page) ==
    LET pageObj == pageObjectStart + i * 3
    IN endObject(writeAscii(beginObject(w, pageObj), "page", pageObj, i,
            106 + toFixed2Length(page.width) + toFixed2Length(page.height)
                + Digits(i + 1) + Digits(pageObj + 2) + Digits(pageObj + 1)))

writeContentObject(w, i, page) ==
    LET contentObj == pageObjectStart + i * 3 + 1
        contentLength == 24 + toFixed2Length(page.width) + toFixed2Length(page.height)
                            + Digits(i + 1)
    IN endObject(writeAscii(beginObject(w, contentObj), "content", contentObj, i,
            32 + Digits(contentLength) + contentLength))

writeImageObject(w, i, page) ==
    LET imageObj == pageObjectStart + i * 3 + 2
        head == writeAscii(beginObject(w, imageObj), "image", imageObj, i,
                    132 + Digits(page.width) + Digits(page.height) + Digits(page.bytes))
        bytes == writeBytes(head, Chunk("bytes", imageObj, i, page.bytes))
    IN endObject(writeAscii(bytes, "endstream", imageObj, i, 11))

\* mutant of writePage: the image object is written before the content stream
writePageImageFirst(w, i, page) ==
    writeContentObject(writeImageObject(writePageObject(w, i, page), i, page), i, page)

\* one iteration of pagesData.forEach
writePage(w, i, page) ==
    writeImageObject(writeContentObject(writePageObject(w, i, page), i, page), i, page)

\* offsets[i] || 0
offsetOf(w, i) == IF i \in DOMAIN w.offsets THEN w.offsets[i] ELSE 0

\* the entries i, i+1, ..., totalObjects of the table
RECURSIVE writeEntries(_, _, _)
writeEntries(w, i, totalObjects) ==
    IF i > totalObjects THEN w
    ELSE writeEntries(
            writeAscii(w, "entry", i, offsetOf(w, i), Max2(10, Digits(offsetOf(w, i))) + 10),
            i + 1, totalObjects)

writeXref(w, pages) ==
    LET totalObjects == 2 + Len(pages) * 3
        xrefOffset == w.byteLength
        head == writeAscii(w, "xref", 0, totalObjects + 1, 8 + Digits(totalObjects + 1))
        free == writeAscii(head, "free", 0, 0, 20)
        table == writeEntries(free, 1, totalObjects)
    IN writeAscii(table, "trailer", totalObjects + 1, xrefOffset,
                  49 + Digits(totalObjects + 1) + Digits(xrefOffset))

jpegPage(svg) == [width |-> svg.width, height |-> svg.height, bytes |-> svg.bytes]

\* mutant of rasterizeAll: the pages that failed are left out
rasterizeSettled(svgs) ==
    <<[i \in 1..Len(SelectSeq(svgs, LAMBDA p : p.raster = "ok")) |->
          jpegPage(SelectSeq(svgs, LAMBDA p : p.raster = "ok")[i])]>>

\* Promise.all(svgs.map(svgToJpegBytes)): <<pages>> when every page
\* resolves, <<>> when one of them rejects
rasterizeAll(svgs) ==
    IF \E i \in 1..Len(svgs) : svgs[i].raster # "ok" THEN <<>>
    ELSE <<[i \in 1..Len(svgs) |-> jpegPage(svgs[i])]>>

InitPdf ==
    /\ PipelineIdle
    /\ SideIdle

\* downloadPdf up to the call of makePdfBlobFromJpegs
DownloadPdf(svgs) ==
    /\ pdfPhase = "idle"
    /\ rasterized' = svgs
    /\ IF Len(svgs) = 0
       THEN /\ pdfPhase' = "done"
            /\ UNCHANGED <<pagesData, exporting, exportFailed>>
       ELSE IF rasterizeAll(svgs) = <<>>
            THEN /\ pdfPhase' = "done"
                 /\ exportFailed' = TRUE
                 /\ UNCHANGED <<pagesData, exporting>>
            ELSE /\ pdfPhase' = "assembling"
                 /\ pagesData' = rasterizeAll(svgs)[1]
                 /\ exporting' = TRUE
                 /\ UNCHANGED exportFailed
    /\ UNCHANGED <<pagesWritten, chunks, byteLength, offsets, downloaded, notPdfVars>>

\* makePdfBlobFromJpegs called on a list of pages by itself
CallAssembler(pages) ==
    /\ pdfPhase = "idle"
    /\ pdfPhase' = "assembling"
    /\ pagesData' = pages
    /\ UNCHANGED <<rasterized, pagesWritten, chunks, byteLength, offsets, exporting, downloaded,
                   exportFailed, notPdfVars>>

\* header, catalog and pages collection
WriteHead ==
    /\ pdfPhase = "assembling"
    /\ pagesWritten = 0 - 1
    /\ LET w == writeHead(Writer(chunks, byteLength, offsets), pagesData)
       IN /\ chunks' = w.chunks
          /\ byteLength' = w.byteLength
          /\ offsets' = w.offsets
    /\ pagesWritten' = 0
    /\ UNCHANGED <<rasterized, pagesData, pdfPhase, exporting, downloaded, exportFailed,
                   notPdfVars>>

\* the next page: page object, content stream, image
WritePage ==
    /\ pdfPhase = "assembling"
    /\ pagesWritten >= 0
    /\ pagesWritten < Len(pagesData)
    /\ LET w == writePage(Writer(chunks, byteLength, offsets), pagesWritten,
                          pagesData[pagesWritten + 1])
       IN /\ chunks' = w.chunks
          /\ byteLength' = w.byteLength
          /\ offsets' = w.offsets
    /\ pagesWritten' = pagesWritten + 1
    /\ UNCHANGED <<rasterized, pagesData, pdfPhase, exporting, downloaded, exportFailed,
                   notPdfVars>>

\* cross-reference table and trailer; the blob is returned and, inside
\* downloadPdf, handed to the browser
WriteXref ==
    /\ pdfPhase = "assembling"
    /\ pagesWritten = Len(pagesData)
    /\ LET w == writeXref(Writer(chunks, byteLength, offsets), pagesData)
       IN /\ chunks' = w.chunks
          /\ byteLength' = w.byteLength
          /\ offsets' = w.offsets
          /\ downloaded' = IF exporting THEN <<w.chunks>> ELSE downloaded
    /\ pdfPhase' = "done"
    /\ UNCHANGED <<rasterized, pagesData, pagesWritten, exporting, exportFailed, notPdfVars>>

NextPdf ==
    \/ \E svgs \in PageLists(SvgPages) : DownloadPdf(svgs)
    \/ \E pages \in PageLists(PageImages) : CallAssembler(pages)
    \/ WriteHead
    \/ WritePage
    \/ WriteXref

SpecPdf == InitPdf /\ [][NextPdf]_vars

----------------------------------------------------------------------------
(* Claims about the document assembler (SpecPdf) *)

\* byte position in the emitted stream at which chunk j begins
RECURSIVE PositionOf(_)
PositionOf(j) == IF j <= 1 THEN 0 ELSE PositionOf(j - 1) + chunks[j - 1].len

\* the places in the stream where the marker "k 0 obj" is written
MarkersOf(k) == {j \in 1..Len(chunks) : chunks[j].text = "obj" /\ chunks[j].id = k}

TableChunks == SelectSeq(chunks, LAMBDA c : c.text = "free" \/ c.text = "entry")

DocumentComplete == pdfPhase = "done" /\ chunks # <<>>

\* C17: for N page images the cross-reference table of the finished document
\* has exactly 2 + 3N + 1 entries, the free entry of object zero first, and
\* for every object id k in 1..2+3N the k-th entry records the byte position
\* at which the only marker "k 0 obj" of the stream begins.
XrefOffsetsExact ==
    DocumentComplete =>
        LET N == Len(pagesData)
        IN /\ Len(TableChunks) = 2 + 3 * N + 1
           /\ TableChunks[1].text = "free"
           /\ \A j \in 1..Len(chunks) : chunks[j].text = "xref" => chunks[j].value = 2 + 3 * N + 1
           /\ \A k \in 1..(2 + 3 * N) :
                 /\ TableChunks[k + 1].text = "entry"
                 /\ TableChunks[k + 1].id = k
                 /\ Cardinality(MarkersOf(k)) = 1
                 /\ \A j \in MarkersOf(k) : TableChunks[k + 1].value = PositionOf(j)

\* a finished document of three pages, one of them with an empty image
XrefOffsetsExactWitness ==
    /\ DocumentComplete
    /\ Len(pagesData) = 3
    /\ \E i \in 1..3 : pagesData[i].bytes = 0
    /\ \E i \in 1..3 : pagesData[i].bytes > 0
    /\ Len(TableChunks) = 12

Markers == SelectSeq(chunks, LAMBDA c : c.text = "obj")

\* the kind of object that carries the id k
KindOf(k) ==
    IF k = 1 THEN "catalog"
    ELSE IF k = 2 THEN "pages"
    ELSE IF (k - pageObjectStart) % 3 = 0 THEN "page"
    ELSE IF (k - pageObjectStart) % 3 = 1 THEN "content"
    ELSE "image"

IsPrefix(s, t) == Len(s) <= Len(t) /\ SubSeq(t, 1, Len(s)) = s

\* objects are written once each in ascending id order, each of its kind,
\* all before the table; every offset is the position at which its object
\* starts, so offsets grow with the id; the table lists them in id order
WrittenInOrder ==
    /\ \A m \in 1..Len(Markers) : Markers[m].id = m
    /\ Len(Markers) <= 2 + 3 * Len(pagesData)
    /\ DocumentComplete => Len(Markers) = 2 + 3 * Len(pagesData)
    /\ \A j \in 1..Len(chunks) :
          chunks[j].text = "obj" =>
              /\ j < Len(chunks)
              /\ chunks[j + 1].text = KindOf(chunks[j].id)
              /\ chunks[j + 1].id = chunks[j].id
              /\ \A i \in 1..(j - 1) : chunks[i].text # "xref"
    /\ DOMAIN offsets = 1..Len(Markers)
    /\ \A k \in 1..Len(Markers) : \A j \in MarkersOf(k) : offsets[k] = PositionOf(j)
    /\ \A k \in 1..(Len(Markers) - 1) : offsets[k] < offsets[k + 1]
    /\ \A k \in 2..Len(TableChunks) :
          /\ TableChunks[k].id = k - 1
          /\ TableChunks[k].value = offsets[k - 1]

\* a step never takes back or changes what has been written
AppendOnly ==
    /\ IsPrefix(chunks, chunks')
    /\ byteLength <= byteLength'
    /\ \A k \in DOMAIN offsets : k \in DOMAIN offsets' /\ offsets'[k] = offsets[k]

\* C18: the assembler's writes are append-only and ordered: objects are
\* emitted once each in ascending id order 1..2+3N (catalog, pages
\* collection, then per page its page, content-stream and image objects),
\* all before the cross-reference table; each offset is captured when its
\* object starts, offsets increase strictly with the id, and the table lists
\* them in that order.
OrderedAppendOnlyWrites == [](WrittenInOrder) /\ [][AppendOnly]_vars

\* the second page of a document has just been written
OrderedAppendOnlyWritesWitness ==
    /\ pdfPhase = "assembling"
    /\ pagesWritten = 2
    /\ Len(Markers) = 8
    /\ offsets[8] > offsets[7]

\* C19: the export fails fast: when the rasterization of a page fails, or
\* there is no page, nothing is assembled and nothing is handed to the
\* browser; what is handed to the browser is a whole document that holds
\* every rendered page.
ExportFailsFast ==
    /\ (\E i \in 1..Len(rasterized) : rasterized[i].raster # "ok") =>
          chunks = <<>> /\ downloaded = <<>> /\ pdfPhase = "done"
    /\ pdfPhase = "done" /\ exporting = FALSE => downloaded = <<>>
    /\ downloaded # <<>> =>
          /\ Len(rasterized) >= 1
          /\ \A i \in 1..Len(rasterized) : rasterized[i].raster = "ok"
          /\ pagesData = [i \in 1..Len(rasterized) |-> jpegPage(rasterized[i])]
          /\ downloaded[1] = chunks
          /\ chunks[Len(chunks)].text = "trailer"
          /\ Len(Markers) = 2 + 3 * Len(rasterized)
          /\ Len(SelectSeq(chunks, LAMBDA c : c.text = "bytes")) = Len(rasterized)

\* an export of three pages of which the last one fails to rasterize
ExportFailsFastWitness ==
    /\ pdfPhase = "done"
    /\ exportFailed
    /\ Len(rasterized) = 3
    /\ rasterized[1].raster = "ok"
    /\ rasterized[2].raster = "ok"
    /\ rasterized[3].raster = "loadError"
    /\ downloaded = <<>>

----------------------------------------------------------------------------
(* tempoFromStyle and hashString: App.tsx 1224-1244.                        *)
(*                                                                          *)
(* A string is the sequence of its characters.  The hash is a 32-bit word   *)
(* kept as two 16-bit halves, so that the wrap-around of << and of |= 0 is  *)
(* computed and no intermediate value leaves the range of the checker's     *)
(* integers.  Between the wraps the code computes in doubles, which hold    *)
(* the integers involved exactly, so each step is arithmetic modulo 2^32.   *)

\* longest title made of the characters of TitleLetters
MaxTitleLength == 3

\* the characters with the codes 32 to 126, in the order of their codes
\* ("grave" stands for the grave accent, code 96)
Printable ==
    <<" ", "!", "\"", "#", "$", "%", "&", "'", "(", ")", "*", "+",
      ",", "-", ".", "/", "0", "1", "2", "3", "4", "5", "6", "7",
      "8", "9", ":", ";", "<", "=", ">", "?", "@", "A", "B", "C",
      "D", "E", "F", "G", "H", "I", "J", "K", "L", "M", "N", "O",
      "P", "Q", "R", "S", "T", "U", "V", "W", "X", "Y", "Z", "[",
      "\\", "]", "^", "_", "grave", "a", "b", "c", "d", "e", "f", "g",
      "h", "i", "j", "k", "l", "m", "n", "o", "p", "q", "r", "s",
      "t", "u", "v", "w", "x", "y", "z", "{", "|", "}", "~">>

Characters == {Printable[i] : i \in 1..Len(Printable)}

charCodeAt(ch) == 31 + (CHOOSE i \in 1..Len(Printable) : Printable[i] = ch)

\* String.prototype.toLowerCase
lowerCase(str) ==
    [i \in 1..Len(str) |->
        IF charCodeAt(str[i]) >= 65 /\ charCodeAt(str[i]) <= 90
        THEN Printable[charCodeAt(str[i]) + 32 - 31]
        ELSE str[i]]

\* String.prototype.includes
includes(str, word) ==
    \E i \in 1..(Len(str) - Len(word) + 1) : SubSeq(str, i, i + Len(word) - 1) = word

Word(hi, lo) == [hi |-> hi, lo |-> lo]

\* hash << 5
shiftLeft5(w) ==
    Word((w.hi * 32 + (w.lo * 32) \div 65536) % 65536, (w.lo * 32) % 65536)

\* a - b modulo 2^32
minus(a, b) ==
    LET borrow == IF a.lo < b.lo THEN 1 ELSE 0
    IN Word((a.hi - b.hi - borrow + 65536) % 65536, (a.lo - b.lo + 65536) % 65536)

\* w + code modulo 2^32, for a character code
plus(w, code) ==
    Word((w.hi + (w.lo + code) \div 65536) % 65536, (w.lo + code) % 65536)

\* the word read as a signed 32-bit integer is negative
isNegative(w) == w.hi >= 32768

\* a number: its sign and its magnitude, the magnitude as a word (the
\* magnitude of -2^31 is 2^31)
Number(negative, magnitude) == [negative |-> negative, magnitude |-> magnitude]

\* mutant of MathAbs: the signed value is returned as it is
signedValue(w) ==
    Number(isNegative(w), IF isNegative(w) THEN minus(Word(0, 0), w) ELSE w)

\* Math.abs(hash)
MathAbs(w) ==
    Number(FALSE, IF isNegative(w) THEN minus(Word(0, 0), w) ELSE w)

\* one round of the loop of hashString:
\* hash = ((hash << 5) - hash) + value.charCodeAt(i); hash |= 0
hashStep(hash, code) == plus(minus(shiftLeft5(hash), hash), code)

Words == [hi : 0..65535, lo : 0..65535]

\* the loop of hashString from the character i on, hash being the value
\* of the variable hash when the round for i begins
hashFrom[value \in Seq(Characters), i \in Nat, hash \in Words] ==
    IF i > Len(value) THEN hash
    ELSE hashFrom[value, i + 1, hashStep(hash, charCodeAt(value[i]))]

\* the variable hash when the loop of hashString has ended
rawHash(value) == hashFrom[value, 1, Word(0, 0)]

hashString(value) == MathAbs(rawHash(value))

\* h % n, with the sign of h
remainder(h, n) ==
    LET r == ((h.magnitude.hi % n) * (65536 % n) + h.magnitude.lo) % n
    IN IF h.negative THEN 0 - r ELSE r

tempoRange(key) ==
    IF includes(key, <<"b", "a", "c", "h">>) \/ includes(key, <<"b", "a", "r", "o", "q", "u", "e">>)
    THEN <<72, 96>>
    ELSE IF includes(key, <<"c", "h", "o", "p", "i", "n">>) \/ includes(key, <<"r", "o", "m", "a", "n", "t", "i", "c">>)
         THEN <<60, 84>>
         ELSE IF includes(key, <<"j", "a", "z", "z">>) THEN <<90, 120>> ELSE <<84, 120>>

tempoSeed(style, title) == lowerCase(style) \o <<"|">> \o title

tempoFromStyle(style, title) ==
    LET key == lowerCase(style)
        h == hashString(tempoSeed(style, title))
        range == tempoRange(key)
    IN range[1] + remainder(h, range[2] - range[1] + 1)

TempoStyles ==
    {<<"B", "a", "c", "h">>, <<"B", "a", "r", "o", "q", "u", "e", " ", "F", "u", "g", "u", "e">>, <<"C", "h", "o", "p", "i", "n">>, <<"R", "O", "M", "A", "N", "T", "I", "C">>, <<"J", "a", "z", "z">>, <<"R", "o", "c", "k">>, <<>>}

TitleLetters == {"A", "z", "~"}

\* titles with which the hash of the seed is exactly -2^31, for the styles
\* Jazz, Bach, Chopin and Rock
WrappingTitles == {<<"a", "r", "h", "i", "p", "z", "g", "f">>, <<"a", "c", "x", "i", "l", "x", "b", "k">>, <<"a", "b", "l", "n", "o", "c", "y", "q">>, <<"a", "b", "z", "v", "p", "g", "c", "x">>}

TempoTitles ==
    UNION {[1..n -> TitleLetters] : n \in 0..MaxTitleLength} \cup WrappingTitles

InitTempo ==
    /\ PipelineIdle
    /\ AppIdle
    /\ AudioIdle
    /\ PdfIdle
    /\ GenIdle
    /\ RetryIdle
    /\ SymbolIdle
    /\ tempoStyle \in TempoStyles
    /\ tempoTitle \in TempoTitles
    /\ tempo = <<>>
    /\ prevTempo = <<>>
    /\ tempoCalls = 0

\* tempoFromStyle is called on the pair, and called again
ComputeTempo ==
    /\ tempoCalls < 2
    /\ prevTempo' = tempo
    /\ tempo' = <<tempoFromStyle(tempoStyle, tempoTitle)>>
    /\ tempoCalls' = tempoCalls + 1
    /\ UNCHANGED <<tempoStyle, tempoTitle, notTempoVars>>

NextTempo == ComputeTempo

SpecTempo == InitTempo /\ [][NextTempo]_vars

----------------------------------------------------------------------------
(* Claims about tempoFromStyle (SpecTempo) *)

\* the BPM range of the profile a style belongs to, written out
ProfileRange ==
    LET key == lowerCase(tempoStyle)
    IN IF includes(key, <<"b", "a", "c", "h">>) \/ includes(key, <<"b", "a", "r", "o", "q", "u", "e">>) THEN 72..96
       ELSE IF includes(key, <<"c", "h", "o", "p", "i", "n">>) \/ includes(key, <<"r", "o", "m", "a", "n", "t", "i", "c">>) THEN 60..84
       ELSE IF includes(key, <<"j", "a", "z", "z">>) THEN 90..120
       ELSE 84..120

\* C20: tempoFromStyle is a function of (style, title): a second call gives
\* the same tempo; and the tempo is an integer inside the BPM range of the
\* style's profile (72..96, 60..84, 90..120 or 84..120), also when the
\* 32-bit hash has wrapped around or is negative before Math.abs.
TempoInProfileRange ==
    /\ tempo # <<>> => tempo[1] \in Int /\ tempo[1] \in ProfileRange
    /\ tempoCalls = 2 => tempo = prevTempo

\* the hash of the seed is -2^31 before Math.abs, the one negative value
\* that has no positive counterpart in 32 bits
TempoInProfileRangeWitness ==
    /\ tempoCalls = 2
    /\ tempoStyle = <<"J", "a", "z", "z">>
    /\ rawHash(tempoSeed(tempoStyle, tempoTitle)) = Word(32768, 0)
    /\ tempo[1] \in 90..120

----------------------------------------------------------------------------
(* Harmonic transition weights and getWeightedNextDegree:                   *)
(* audioImport.ts 160-194, 226-240.  Weights are in hundredths.  A value of *)
(* Math.random() is a number of hundredths in 0..99; 100 stands for a       *)
(* product Math.random() * sum that floating-point rounding leaves at the   *)
(* sum of the weights, so that no subtraction in the loop makes r negative. *)

\* largest absolute value of a currentDegree passed to getWeightedNextDegree
MaxDegree == 8

\* how many times getWeightedNextDegree is called in a row on its own
MaxDegreeCalls == 2

BACH_HARMONIC_WEIGHTS ==
    << <<10, 5, 5, 30, 40, 10, 0>>,
       <<0, 10, 0, 0, 80, 10, 0>>,
       <<0, 0, 10, 40, 0, 50, 0>>,
       <<30, 10, 0, 10, 50, 0, 0>>,
       <<80, 0, 0, 0, 10, 10, 0>>,
       <<0, 60, 0, 10, 30, 0, 0>>,
       <<90, 0, 0, 0, 0, 10, 0>> >>

BEETHOVEN_HARMONIC_WEIGHTS ==
    << <<10, 0, 0, 30, 50, 10, 0>>,
       <<0, 10, 0, 0, 90, 0, 0>>,
       <<0, 0, 10, 30, 0, 60, 0>>,
       <<20, 10, 0, 10, 60, 0, 0>>,
       <<90, 0, 0, 0, 5, 5, 0>>,
       <<0, 50, 0, 20, 30, 0, 0>>,
       <<95, 0, 0, 0, 0, 5, 0>> >>

StyleKeys == {"BACH", "BEETHOVEN"}

\* weights.reduce((a, b) => a + b, 0)
RECURSIVE SumSeq(_)
SumSeq(s) == IF s = <<>> THEN 0 ELSE Head(s) + SumSeq(Tail(s))

\* the loop over the weights from index i (counted from 0) on; r is in units
\* of 1/10000.  The result is <<i>> when the loop returns i, <<>> when it ends.
RECURSIVE weightLoop(_, _, _)
weightLoop(weights, i, r) ==
    IF i >= Len(weights) THEN <<>>
    ELSE IF r - 100 * weights[i + 1] < 0 THEN <<i>>
    ELSE weightLoop(weights, i + 1, r - 100 * weights[i + 1])

\* mutant of getWeightedNextDegree: without the fallback to the tonic, the
\* result is -1 when the loop ends, as with findIndex in getWeightedRandom
getWeightedNextDegreeNoFallback(currentDegree, style, random) ==
    LET table == IF style = "BACH" THEN BACH_HARMONIC_WEIGHTS ELSE BEETHOVEN_HARMONIC_WEIGHTS
        idx == Abs(currentDegree) % 7
        weights == table[idx + 1]
        hit == weightLoop(weights, 0, random * SumSeq(weights))
    IN IF hit = <<>> THEN 0 - 1 ELSE hit[1]

\* random is the value of Math.random() in the call
getWeightedNextDegree(currentDegree, style, random) ==
    LET table == IF style = "BACH" THEN BACH_HARMONIC_WEIGHTS ELSE BEETHOVEN_HARMONIC_WEIGHTS
        idx == Abs(currentDegree) % 7
        weights == table[idx + 1]
        hit == weightLoop(weights, 0, random * SumSeq(weights))
    IN IF hit = <<>> THEN 0 ELSE hit[1]

DegreeDraws == {0, 9, 10, 40, 50, 89, 96, 99, 100}

InitDegree ==
    /\ PipelineIdle
    /\ AppIdle
    /\ AudioIdle
    /\ PdfIdle
    /\ TempoIdle
    /\ RetryIdle
    /\ SymbolIdle
    /\ styleKey \in StyleKeys
    /\ currentRootDegree \in (0 - MaxDegree)..MaxDegree
    /\ degreeArg = <<>>
    /\ degreeDraw = <<>>
    /\ degreeCalls = 0
    /\ MelodyIdle
    /\ ComposeIdle

\* currentRootDegree = getWeightedNextDegree(currentRootDegree, styleKey)
EvolveHarmony(random) ==
    /\ degreeCalls < MaxDegreeCalls
    /\ degreeArg' = <<currentRootDegree>>
    /\ degreeDraw' = <<random>>
    /\ currentRootDegree' = getWeightedNextDegree(currentRootDegree, styleKey, random)
    /\ degreeCalls' = degreeCalls + 1
    /\ UNCHANGED <<styleKey, melodyVars, composeVars, notGenVars>>

NextDegree == \E random \in DegreeDraws : EvolveHarmony(random)

SpecDegree == InitDegree /\ [][NextDegree]_vars

----------------------------------------------------------------------------
(* Claims about getWeightedNextDegree (SpecDegree) *)

\* C21: whatever integer currentDegree is (negative, or 7 and above), for
\* either style and every random draw, getWeightedNextDegree returns an
\* integer in 0..6, so the root degree is in 0..6 after every call.
NextDegreeInRange ==
    degreeCalls > 0 => currentRootDegree \in 0..6

\* a negative currentDegree, and a draw with which the loop over the weights
\* ends without returning
NextDegreeInRangeWitness ==
    /\ degreeCalls > 0
    /\ degreeArg = <<0 - MaxDegree>>
    /\ degreeDraw = <<100>>
    /\ currentRootDegree = 0

----------------------------------------------------------------------------
(* midiToAbc applied to pairs of MIDI pitches: App.tsx 1346-1364 *)

\* the MIDI pitches: 0..127
MidiPitches == 0..127

InitSymbol ==
    /\ PipelineIdle
    /\ AppIdle
    /\ AudioIdle
    /\ PdfIdle
    /\ TempoIdle
    /\ GenIdle
    /\ RetryIdle
    /\ symbolPitches \in {pair \in MidiPitches \X MidiPitches : pair[1] <= pair[2]}
    /\ symbols = <<>>

\* both pitches are spelled
Spell ==
    /\ symbols = <<>>
    /\ symbols' = <<midiToAbc(symbolPitches[1]), midiToAbc(symbolPitches[2])>>
    /\ UNCHANGED <<symbolPitches, notSymbolVars>>

NextSymbol == Spell

SpecSymbol == InitSymbol /\ [][NextSymbol]_vars

----------------------------------------------------------------------------
(* Claims about midiToAbc (SpecSymbol) *)

\* C22: midiToAbc is invertible on 0..127: middle C (60) is spelled "C",
\* only sharps are used, and two distinct pitches never get the same symbol.
SymbolsInvertible ==
    symbols # <<>> =>
        /\ \A i \in 1..2 : symbolPitches[i] = 60 => symbols[i] = <<"C">>
        /\ \A i \in 1..2 : "_" \notin {symbols[i][k] : k \in 1..Len(symbols[i])}
        /\ symbolPitches[1] # symbolPitches[2] => symbols[1] # symbols[2]

----------------------------------------------------------------------------
(* generateStochasticMelody: App.tsx 1209-1222, 1301-1343.                  *)
(*                                                                          *)
(* Inside the generator, times and durations are in thousandths of a beat   *)
(* (the triplet cell is 0.333, 0.333, 0.334); normalizeNote brings them to  *)
(* the grid.  A value of Math.random() is a number of hundredths.  The      *)
(* draws that choose the rhythmic cells are read from cellTape in a cycle;  *)
(* the draws of the other call sites are fixed for a run by the record      *)
(* draws, one field per call site.                                          *)

\* longest cycle of rhythmic-cell draws
MaxTape == 3

\* one beat, in thousandths
MILLI == 1000

RHYTHMIC_CELLS ==
    [simple |-> << <<1000>>, <<500, 500>>, <<250, 250, 500>> >>,
     baroque |-> << <<500, 250, 250>>, <<250, 250, 250, 250>>, <<750, 250>> >>,
     dramatic |-> << <<500, 500, 1000>>, <<1500, 500>>, <<333, 333, 334>> >>]

RH_RANGE == <<60, 84>>
LH_RANGE == <<36, 60>>

clampPitch(pitch, range) == clamp(pitch, range[1], range[2])

\* the step probabilities of MELODIC_MOTION_WEIGHTS, in hundredths
MELODIC_MOTION_WEIGHTS == [BACH |-> 85, BEETHOVEN |-> 92, DRAMATIC |-> 60]

\* MELODIC_MOTION_WEIGHTS[melodicStyle] || MELODIC_MOTION_WEIGHTS['DRAMATIC']
motionWeights(melodicStyle) ==
    IF melodicStyle \in DOMAIN MELODIC_MOTION_WEIGHTS
    THEN MELODIC_MOTION_WEIGHTS[melodicStyle]
    ELSE MELODIC_MOTION_WEIGHTS["DRAMATIC"]

\* Math.floor(Math.random() * n)
randomIndex(random, n) == (random * n) \div 100

BachScale == <<60, 62, 64, 65, 67, 69, 71, 72>>
BeethovenScale == <<60, 62, 63, 65, 67, 68, 70, 72>>

\* scale.map(p => p + 12)
octaveUp(scale) == [i \in 1..Len(scale) |-> scale[i] + 12]

Profile(move, direction, leap, velocity, fingering, dynamic, chord, degree, title) ==
    [move |-> move, direction |-> direction, leap |-> leap, velocity |-> velocity,
     fingering |-> fingering, dynamic |-> dynamic, chord |-> chord, degree |-> degree,
     title |-> title]

\* steps upwards; steps downwards; leaps to the top of the scale; a draw
\* that is a step for BEETHOVEN and a leap for BACH
DrawProfiles ==
    {Profile(0, 96, 0, 0, 0, 0, 96, 50, 0),
     Profile(40, 0, 0, 40, 40, 40, 0, 0, 40),
     Profile(96, 0, 96, 96, 96, 96, 96, 100, 96),
     Profile(89, 96, 0, 40, 96, 0, 96, 96, 0)}

CellDraws == {0, 40, 96}

Tapes == UNION {[1..n -> CellDraws] : n \in 1..MaxTape}

\* the locals of generateStochasticMelody that the loops change
MelodyState(notes, time, index) == [notes |-> notes, currentTime |-> time, lastPitchIndex |-> index]

\* the body of cell.forEach for one duration
melodyNote(st, duration, args, melodicStyle) ==
    LET scale == args.scale
        isStep == draws.move < motionWeights(melodicStyle)
        direction == IF draws.direction > 50 THEN 1 ELSE 0 - 1
        nextIndex == IF isStep
                     THEN Max2(0, Min2(Len(scale) - 1, st.lastPitchIndex + direction))
                     ELSE randomIndex(draws.leap, Len(scale))
        rawPitch == scale[nextIndex + 1]
    IN MelodyState(
           Append(st.notes, [pitch |-> clampPitch(rawPitch, args.range),
                             time |-> st.currentTime,
                             duration |-> duration,
                             velocity |-> <<65 + (draws.velocity * 25) \div 100>>]),
           st.currentTime + duration,
           nextIndex)

\* cell.forEach from the k-th duration of the cell on
RECURSIVE cellForEach(_, _, _, _, _)
cellForEach(cell, k, st, args, melodicStyle) ==
    IF k > Len(cell) THEN st
    ELSE cellForEach(cell, k + 1, melodyNote(st, cell[k], args, melodicStyle), args, melodicStyle)

\* the function is entered: its locals get their first values
BeginMelody(scale, length, rhythmicStyle, range) ==
    /\ melodyPhase' = "walking"
    /\ melodyArgs' = [scale |-> scale, length |-> length, rhythmicStyle |-> rhythmicStyle,
                      range |-> range]
    /\ currentTime' = 0
    /\ melodyNotes' = <<>>
    /\ lastPitchIndex' = Len(scale) \div 2
    /\ cellsDrawn' = 0

\* the call generateStochasticMelody(scale.map(p => p + 12), 8, rhythmicStyle, styleKey, RH_RANGE)
CallMelody(rhythmicStyle) ==
    /\ melodyPhase = "idle"
    /\ BeginMelody(octaveUp(IF styleKey = "BACH" THEN BachScale ELSE BeethovenScale),
                   8 * MILLI, rhythmicStyle, RH_RANGE)
    /\ UNCHANGED <<degreeVars, composeVars, draws, cellTape, notGenVars>>

\* one round of while (currentTime < length): a cell is drawn and its notes are pushed
MelodyCell ==
    /\ melodyPhase = "walking"
    /\ currentTime < melodyArgs.length
    /\ LET cells == RHYTHMIC_CELLS[melodyArgs.rhythmicStyle]
           random == cellTape[(cellsDrawn % Len(cellTape)) + 1]
           cell == cells[randomIndex(random, Len(cells)) + 1]
           st == cellForEach(cell, 1, MelodyState(melodyNotes, currentTime, lastPitchIndex),
                             melodyArgs, styleKey)
       IN /\ melodyNotes' = st.notes
          /\ currentTime' = st.currentTime
          /\ lastPitchIndex' = st.lastPitchIndex
    /\ cellsDrawn' = cellsDrawn + 1
    /\ UNCHANGED <<degreeVars, composeVars, draws, cellTape, melodyPhase, melodyArgs, notGenVars>>

\* the while loop ends and notes is returned
ReturnMelody ==
    /\ melodyPhase = "walking"
    /\ ~(currentTime < melodyArgs.length)
    /\ melodyPhase' = "returned"
    /\ UNCHANGED <<degreeVars, composeVars, draws, cellTape, melodyArgs, currentTime,
                   melodyNotes, lastPitchIndex, cellsDrawn, notGenVars>>

InitMelody ==
    /\ PipelineIdle
    /\ AppIdle
    /\ AudioIdle
    /\ PdfIdle
    /\ TempoIdle
    /\ RetryIdle
    /\ SymbolIdle
    /\ styleKey \in StyleKeys
    /\ currentRootDegree = 0
    /\ degreeArg = <<>>
    /\ degreeDraw = <<>>
    /\ degreeCalls = 0
    /\ draws \in DrawProfiles
    /\ cellTape \in Tapes
    /\ melodyPhase = "idle"
    /\ melodyArgs = IdleMelodyArgs
    /\ currentTime = 0
    /\ melodyNotes = <<>>
    /\ lastPitchIndex = 0
    /\ cellsDrawn = 0
    /\ ComposeIdle

NextMelody ==
    \/ \E rhythmicStyle \in {"dramatic", "simple"} : CallMelody(rhythmicStyle)
    \/ MelodyCell
    \/ ReturnMelody

SpecMelody == InitMelody /\ [][NextMelody]_vars

----------------------------------------------------------------------------
(* Claims about generateStochasticMelody (SpecMelody) *)

\* C25: the melody returned by generateStochasticMelody(..., 8, ...) is
\* exactly 8 beats long: the durations of its notes add up to 8 beats, and
\* every note starts before beat 8 and ends at or before beat 8.
MelodyFillsEightBeats ==
    melodyPhase = "returned" =>
        /\ SumSeq([i \in 1..Len(melodyNotes) |-> melodyNotes[i].duration]) = 8 * MILLI
        /\ \A i \in 1..Len(melodyNotes) :
              /\ melodyNotes[i].time < 8 * MILLI
              /\ melodyNotes[i].time + melodyNotes[i].duration <= 8 * MILLI

----------------------------------------------------------------------------
(* The offline generator: generateAdvancedComposition and proceduralCompose, *)
(* App.tsx 1367-1542, called without instrument and subtitle.  The code     *)
(* generates 32 sections (sections_internal); the model generates the first *)
(* MaxSections of them, which take s % 4 through all its values.  The       *)
(* expression marks of the generator's own text ("rit.", repeats, slurs)    *)
(* are left out of totalAbc.                                                *)

\* how many sections are generated
MaxSections == 4

\* style.toLowerCase().includes('bach') || style.toLowerCase().includes('baroque')
isBach(style) ==
    includes(lowerCase(style), <<"b", "a", "c", "h">>) \/ includes(lowerCase(style), <<"b", "a", "r", "o", "q", "u", "e">>)

\* mutant of resolveStyleKey: a style that names no known composer gets no profile
resolveKnownStyleKey(style) ==
    IF isBach(style) THEN "BACH"
    ELSE IF includes(lowerCase(style), <<"b", "e", "e", "t", "h", "o", "v", "e", "n">>) THEN "BEETHOVEN" ELSE "NONE"

\* const styleKey = isBach ? 'BACH' : 'BEETHOVEN'
resolveStyleKey(style) == IF isBach(style) THEN "BACH" ELSE "BEETHOVEN"

\* const rubatoType = isBach ? 'baroque' : 'expressive'
rubatoTypeOf(key) == IF key = "BACH" THEN "baroque" ELSE "expressive"

scaleOf(key) == IF key = "BACH" THEN BachScale ELSE BeethovenScale

\* the titles to draw from; random is the value of both calls of Math.random()
titlesOf(random) ==
    <<<<"S", "o", "n", "a", "t", "a", " ", "N", "o", ".", " ">> \o <<Printable[17 + (random * 9 + 100) \div 100]>>,
      <<"P", "r", "e", "l", "u", "d", "e", " ", "i", "n", " ", "A", " ", "M", "i", "n", "o", "r">>, <<"N", "o", "c", "t", "u", "r", "n", "e">>, <<"E", "t", "u", "d", "e", " ", "N", "o", ".", " ", "5">>, <<"F", "a", "n", "t", "a", "s", "i", "a">>,
      <<"C", "o", "n", "c", "e", "r", "t", "o", " ", "M", "o", "v", "e", "m", "e", "n", "t">>>>

\* title || titles[Math.floor(Math.random() * titles.length)]
dynamicTitleOf(title, random) ==
    IF title # <<>> THEN title
    ELSE titlesOf(random)[randomIndex(random, Len(titlesOf(random))) + 1]

\* scale.indexOf(pitch), counted from 0, -1 when absent
indexOf(scale, pitch) ==
    LET hits == {i \in 1..Len(scale) : scale[i] = pitch}
    IN IF hits = {} THEN 0 - 1 ELSE SetMin(hits) - 1

\* the remainder operator of the language: the sign is the sign of a
jsRemainder(a, b) == IF a >= 0 THEN a % b ELSE 0 - ((0 - a) % b)

applySequence(motif, interval, scale) ==
    [k \in 1..Len(motif) |->
        LET n == motif[k]
            idx == indexOf(scale, (n.pitch % 12) + 60)
            at == jsRemainder(idx + interval, Len(scale))
            nextPitchRaw == IF at >= 0 THEN scale[at + 1] ELSE scale[1]
            nextPitch == nextPitchRaw + ((n.pitch \div 12) - 5) * 12
        IN [n EXCEPT !.pitch = IF nextPitch # 0 THEN nextPitch ELSE n.pitch]]

applyInversion(motif, axis) ==
    [k \in 1..Len(motif) |-> [motif[k] EXCEPT !.pitch = axis - (motif[k].pitch - axis)]]

\* a number of beats as the fraction num / den
Fraction(num, den) == [num |-> num, den |-> den]

\* RUBATO_CURVES[rubatoType](idx / length): 0.05 * (4 * x * (1 - x)) for
\* 'expressive'; x > 0.9 ? 0.05 * (x - 0.9) : 0 for 'baroque'
rubatoOffset(rubatoType, idx, length) ==
    IF rubatoType = "expressive"
    THEN Fraction(idx * (length - idx), 5 * length * length)
    ELSE IF 10 * idx > 9 * length
         THEN Fraction(10 * idx - 9 * length, 200 * length)
         ELSE Fraction(0, 1)

\* quantize of num / den beats, in the unit of the grid model
quantizeFraction(num, den) == MathRound((BEAT \div TIME_GRID) * num, den) * TIME_GRID

\* the body of currentMelody.forEach up to the push: the note with its time
\* moved into the section and by the rubato, normalized, clamped and decorated
humanize(n, idx, length, start, rubatoType) ==
    LET offset == rubatoOffset(rubatoType, idx, length)
        time == Fraction((n.time + start) * offset.den + MILLI * offset.num,
                         MILLI * offset.den)
    IN [pitch |-> clampPitch(n.pitch, RH_RANGE),
        time |-> Max2(0, quantizeFraction(time.num, time.den)),
        duration |-> Max2(TIME_GRID, quantizeFraction(n.duration, MILLI)),
        velocity |-> <<clamp(OrElse(n.velocity, VELOCITY_DEFAULT), VELOCITY_MIN, VELOCITY_MAX)>>,
        fingering |-> randomIndex(draws.fingering, 5) + 1,
        dynamic |-> IF idx = 0
                    THEN <<(<<"!pp!", "!p!", "!mf!">>)[randomIndex(draws.dynamic, 3) + 1]>>
                    ELSE <<>>,
        slurStart |-> idx % 3 = 0,
        slurEnd |-> idx % 3 = 2]

\* the melody of section s
sectionMelody(s, seed, fresh, scale) ==
    IF s % 4 = 0 THEN seed
    ELSE IF s % 4 = 1 THEN applySequence(seed, 1, scale)
    ELSE IF s % 4 = 2 THEN applyInversion(seed, scale[5] + 12)
    ELSE fresh

\* what the generator writes for one note of the upper voice
rhToken(n) ==
    [symbol |-> midiToAbc(n.pitch),
     len |-> IF n.duration = BEAT THEN "2"
             ELSE IF 2 * n.duration = BEAT THEN ""
             ELSE IF 4 * n.duration = BEAT THEN "/2" ELSE "",
     fingering |-> n.fingering,
     dynamic |-> n.dynamic]

\* mutant of bassPitch: the scale pitch is not brought down two octaves
bassPitchNotLowered(scale, degree) ==
    clampPitch(scale[(degree % Len(scale)) + 1], LH_RANGE)

\* clampPitch(scale[degree % scale.length] - 24, LH_RANGE)
bassPitch(scale, degree) ==
    clampPitch(scale[(degree % Len(scale)) + 1] - 24, LH_RANGE)

\* the state of the harmony loop: root degree, bass notes and tokens so far
Harmony(degree, notes, tokens) == [degree |-> degree, notes |-> notes, tokens |-> tokens]

\* one round of for (bar ...) in section s
harmonyBar(h, s, bar, key) ==
    LET scale == scaleOf(key)
        degree == getWeightedNextDegree(h.degree, key, draws.degree)
        rootPitch == bassPitch(scale, degree)
        thirdPitch == bassPitch(scale, degree + 2)
        time == (s * 8 + bar * 4) * BEAT
    IN IF draws.chord > 40
       THEN Harmony(degree,
                h.notes \o <<normalizeNote(Note(rootPitch, time, 4 * BEAT, <<70>>)),
                             normalizeNote(Note(thirdPitch, time, 4 * BEAT, <<60>>))>>,
                Append(h.tokens, <<midiToAbc(rootPitch), midiToAbc(thirdPitch)>>))
       ELSE Harmony(degree, h.notes, Append(h.tokens, <<"z8">>))

\* the Composition generateAdvancedComposition returns
composedResult(args, key, tracks, text) ==
    LET title == dynamicTitleOf(args.title, draws.title)
    IN [title |-> title,
        subtitle |-> "",
        composer |-> IF args.userName # "" THEN <<args.userName, "(year)">>
                     ELSE <<"S.O.N.A.T.A. Stochastic Engine">>,
        style |-> args.style,
        tempo |-> tempoFromStyle(args.style, title),
        tracks |-> <<[instrument |-> "Piano", volume |-> 80, notes |-> tracks[1]],
                     [instrument |-> "Piano", volume |-> 80, notes |-> tracks[2]]>>,
        abcNotation |-> [header |-> [title |-> title, subtitle |-> "",
                                     composer |-> IF args.userName # "" THEN args.userName
                                                  ELSE "L. van Beethoven",
                                     tempo |-> tempoFromStyle(args.style, title)],
                         score |-> text],
        id |-> <<>>]

\* mutant of proceduralCompose: the generator's own text is kept
proceduralComposeUnsynced(composed) == normalizeComposition(composed)

proceduralCompose(composed) == withAbc(normalizeComposition(composed))

GenStyles == {<<"B", "a", "r", "o", "q", "u", "e">>, <<"J", "a", "z", "z">>}

GenTapes == {<<0>>, <<96, 0>>}

\* the title and the user name: both absent, or both given
GenCredits == {<<<<>>, "">>, <<<<"A", "r", "i", "a">>, "Ada">>}

InitGen ==
    /\ PipelineIdle
    /\ AppIdle
    /\ AudioIdle
    /\ PdfIdle
    /\ TempoIdle
    /\ RetryIdle
    /\ SymbolIdle
    /\ DegreeIdle
    /\ draws \in DrawProfiles
    /\ cellTape \in GenTapes
    /\ melodyPhase = "idle"
    /\ melodyArgs = IdleMelodyArgs
    /\ currentTime = 0
    /\ melodyNotes = <<>>
    /\ lastPitchIndex = 0
    /\ cellsDrawn = 0
    /\ ComposeIdle

\* proceduralCompose is called: generateAdvancedComposition runs up to the
\* while loop of the seed motif
CallCompose(style, title, userName) ==
    /\ genPhase = "idle"
    /\ melodyPhase = "idle"
    /\ genPhase' = "seed"
    /\ genArgs' = [style |-> style, title |-> title, userName |-> userName]
    /\ styleKey' = resolveStyleKey(style)
    /\ currentRootDegree' = 0
    /\ BeginMelody(octaveUp(scaleOf(resolveStyleKey(style))), 8 * MILLI, "dramatic", RH_RANGE)
    /\ UNCHANGED <<degreeArg, degreeDraw, degreeCalls, draws, cellTape, section, seedMotif,
                   genTracks, totalAbc, genResult, notGenVars>>

\* the seed motif is returned; the loop over the sections begins
TakeSeed ==
    /\ genPhase = "seed"
    /\ melodyPhase = "returned"
    /\ seedMotif' = melodyNotes
    /\ genPhase' = "sections"
    /\ section' = 0
    /\ melodyPhase' = "idle"
    /\ UNCHANGED <<degreeVars, draws, cellTape, melodyArgs, currentTime, melodyNotes,
                   lastPitchIndex, cellsDrawn, genArgs, genTracks, totalAbc, genResult,
                   notGenVars>>

\* a section with s % 4 = 3 calls generateStochasticMelody for a new melody
FreshMelody ==
    /\ genPhase = "sections"
    /\ section < MaxSections
    /\ section % 4 = 3
    /\ melodyPhase = "idle"
    /\ BeginMelody(octaveUp(scaleOf(styleKey)), 8 * MILLI, "simple", RH_RANGE)
    /\ UNCHANGED <<degreeVars, composeVars, draws, cellTape, notGenVars>>

\* what one round of the loop over the sections adds: the humanized melody
\* and its tokens, two bars of harmony, and the page break
sectionRound(s, motif, melody, rootDegree, key) ==
    LET currentMelody == sectionMelody(s, motif, melody, scaleOf(key))
        length == Len(currentMelody)
        copies == [k \in 1..length |->
                      humanize(currentMelody[k], k - 1, length, s * 8 * MILLI,
                               rubatoTypeOf(key))]
        bar0 == harmonyBar(Harmony(rootDegree, <<>>, <<>>), s, 0, key)
        bar1 == harmonyBar(bar0, s, 1, key)
    IN [melody |-> copies,
        bass |-> bar1.notes,
        degree |-> bar1.degree,
        abc |-> <<[voice |-> "RH", section |-> s, tokens |-> MapSeq(copies, rhToken)],
                  [voice |-> "LH", section |-> s, tokens |-> bar1.tokens]>>
                \o (IF (s + 1) % 4 = 0 /\ s < MaxSections - 1
                    THEN <<[voice |-> "%%newpage", section |-> s, tokens |-> <<>>]>>
                    ELSE <<>>)]

\* one round of the loop over the sections, once its melody is there
Section ==
    /\ genPhase = "sections"
    /\ section < MaxSections
    /\ section % 4 = 3 => melodyPhase = "returned"
    /\ \E round \in {sectionRound(section, seedMotif, melodyNotes, currentRootDegree, styleKey)} :
          /\ genTracks' = <<genTracks[1] \o round.melody, genTracks[2] \o round.bass>>
          /\ currentRootDegree' = round.degree
          /\ totalAbc' = totalAbc \o round.abc
    /\ section' = section + 1
    /\ melodyPhase' = "idle"
    /\ UNCHANGED <<styleKey, degreeArg, degreeDraw, degreeCalls, draws, cellTape, melodyArgs,
                   currentTime, melodyNotes, lastPitchIndex, cellsDrawn, genPhase, genArgs,
                   seedMotif, genResult, notGenVars>>

\* the loop over the sections ends: generateAdvancedComposition returns, and
\* proceduralCompose normalizes the result and writes its notation text
FinishCompose ==
    /\ genPhase = "sections"
    /\ ~(section < MaxSections)
    /\ genResult' = <<proceduralCompose(composedResult(genArgs, styleKey, genTracks, totalAbc))>>
    /\ genPhase' = "done"
    /\ UNCHANGED <<degreeVars, melodyVars, genArgs, section, seedMotif, genTracks, totalAbc,
                   notGenVars>>

NextGen ==
    \/ \E style \in GenStyles, credits \in GenCredits :
          CallCompose(style, credits[1], credits[2])
    \/ MelodyCell
    \/ ReturnMelody
    \/ TakeSeed
    \/ FreshMelody
    \/ Section
    \/ FinishCompose

SpecGen == InitGen /\ [][NextGen]_vars

\* the guards of Section and of FinishCompose
SectionEnabled ==
    /\ genPhase = "sections"
    /\ section < MaxSections
    /\ section % 4 = 3 => melodyPhase = "returned"

FinishEnabled == genPhase = "sections" /\ ~(section < MaxSections)

\* the generator is synchronous code: a step that can be taken is taken in
\* the end. Weak fairness of each step; for Section and FinishCompose it is
\* written out with the guard in the place of ENABLED.
SpecGenFair ==
    /\ SpecGen
    /\ WF_vars(\E style \in GenStyles, credits \in GenCredits :
                   CallCompose(style, credits[1], credits[2]))
    /\ WF_vars(MelodyCell)
    /\ WF_vars(ReturnMelody)
    /\ WF_vars(TakeSeed)
    /\ WF_vars(FreshMelody)
    /\ ([]<>(~SectionEnabled) \/ []<><<Section>>_vars)
    /\ ([]<>(~FinishEnabled) \/ []<><<FinishCompose>>_vars)

----------------------------------------------------------------------------
(* Claims about the offline generator (SpecGen, SpecGenFair) *)

\* the two sequences hold the same notes, each as many times
SameNotes(a, b) ==
    /\ Len(a) = Len(b)
    /\ \A x \in Range(a) \cup Range(b) : Count(a, x) = Count(b, x)

PitchesWithin(notes, low, high) ==
    \A i \in 1..Len(notes) : notes[i].pitch \in low..high

\* C23: proceduralCompose returns a Composition with exactly two tracks;
\* every melody note has its pitch in 60..84 and every bass note in 36..60;
\* after the grand-staff split the first track holds exactly the melody notes
\* and the second exactly the bass notes; and the returned abcNotation is
\* syncAbcNotation of the returned composition.
GeneratedTwoHands ==
    genPhase = "done" =>
        /\ Len(genResult[1].tracks) = 2
        /\ PitchesWithin(genTracks[1], 60, 84)
        /\ PitchesWithin(genTracks[2], 36, 60)
        /\ SameNotes(genResult[1].tracks[1].notes, genTracks[1])
        /\ SameNotes(genResult[1].tracks[2].notes, genTracks[2])
        /\ genResult[1].abcNotation = abcText(genResult[1])

\* a melody with a note clamped to the top of the treble range, over block chords
GeneratedTwoHandsWitness ==
    /\ genPhase = "done"
    /\ \E i \in 1..Len(genTracks[1]) : genTracks[1][i].pitch = 84
    /\ Len(genTracks[2]) = 4 * MaxSections
    /\ Len(genResult[1].tracks[2].notes) = 4 * MaxSections

StyleResolved ==
    genPhase # "idle" => styleKey = (IF isBach(genArgs.style) THEN "BACH" ELSE "BEETHOVEN")

\* every rhythmic cell lasts a beat or more, so 8 cells fill the 8 beats
CellLoopBounded == cellsDrawn <= 8

ComposedWithoutError ==
    genPhase = "done" => genResult # <<>> /\ DOMAIN genResult[1].tracks = 1..2

\* C24: the generator is total: for every style string, recognized or not,
\* and every sequence of draws, generation ends and returns a Composition;
\* a style that does not match Bach/baroque gets the BEETHOVEN profile; and
\* the loop over the rhythmic cells ends.
GeneratorTotal ==
    /\ [](StyleResolved /\ CellLoopBounded /\ ComposedWithoutError)
    /\ <>(genPhase = "done")

\* a style that is not recognized, composed to the end
GeneratorTotalWitness ==
    /\ genPhase = "done"
    /\ genArgs.style = <<"J", "a", "z", "z">>
    /\ styleKey = "BEETHOVEN"
    /\ genResult # <<>>

----------------------------------------------------------------------------
(* Claims about the layout of the notation body: pages and lines (SpecLong) *)

\* the places of the page breaks in a body
PageBreaks(body) == {i \in 1..Len(body) : body[i].item = "%%newpage"}

\* a body of totalMeasures measures has a page break after every 32 measures
\* that further measures follow, and nowhere else
PagesOf32(body, totalMeasures) ==
    /\ Cardinality(PageBreaks(body)) = MathCeil(totalMeasures, 32) - 1
    /\ body[Len(body)].item # "%%newpage"
    /\ \A i \in PageBreaks(body) :
          /\ (body[i].measure + 1) % 32 = 0
          /\ i < Len(body)
          /\ body[i + 1] = AbcItem("voice", "RH", body[i].measure + 1, <<>>)
    /\ \A k \in 1..(MathCeil(totalMeasures, 32) - 1) :
          \E i \in PageBreaks(body) : body[i].measure + 1 = 32 * k

\* measure counts of one page, of two, and of a third page begun
PageCounts == {32, 33, 63, 64, 65}

\* C26: %%newpage is inserted after every 8 lines of 4 measures (32
\* measures) only when further measures follow: the body holds exactly
\* ceil(totalMeasures / 32) - 1 markers and never ends with one. Checked on
\* the encoded composition and on the body of longer pieces of silence.
PageBreakEvery32Measures ==
    encoded =>
        /\ PagesOf32(abc.body, abc.totalMeasures)
        /\ \A total \in PageCounts :
              PagesOf32(AbcBody(0, total, buildTimeMap(<<>>), buildTimeMap(<<>>)), total)

\* a piece of 33 measures: one page break, before the line of measure 32
PageBreakEvery32MeasuresWitness ==
    /\ encoded
    /\ abc.totalMeasures = 33
    /\ Cardinality(PageBreaks(abc.body)) = 1
    /\ \E i \in PageBreaks(abc.body) : abc.body[i].measure = 31

\* the measures rendered for a voice, in the order of the text
BarsOfVoice(body, voice) ==
    LET bars == SelectSeq(body, LAMBDA it : it.item = "bar" /\ it.voice = voice)
    IN [i \in 1..Len(bars) |-> bars[i].measure]

\* C27: both voices encode the same measures: every measure index
\* 0..totalMeasures-1 is rendered exactly once in the RH voice and exactly
\* once in the LH voice, also when totalMeasures is not a multiple of 4.
EveryMeasureOncePerVoice ==
    encoded =>
        \A k \in 0..(abc.totalMeasures - 1) :
            /\ Count(BarsOfVoice(abc.body, "RH"), k) = 1
            /\ Count(BarsOfVoice(abc.body, "LH"), k) = 1

----------------------------------------------------------------------------
(* Claim about the length of a measure in both encodings (SpecEnc) *)

\* the ticks taken by all the tokens of one measure of the notation text
AbcMeasureTicks(tokens) == AbcTicksBefore(tokens, Len(tokens) + 1)

\* the ticks taken by all the elements of one staff of one XML measure
XmlMeasureTicks(elements) == XmlTicksBefore(elements, Len(elements) + 1)

\* C28: in both encoders the lengths of the tokens emitted for one voice in
\* one measure sum to exactly one measure: 16 grid ticks in the notation
\* text, 32 ticks in the XML, also when a note lasts beyond the end of the
\* measure in which it starts.
MeasuresAreFull ==
    encoded =>
        /\ \A i \in 1..Len(abc.body) :
              abc.body[i].item = "bar" => AbcMeasureTicks(abc.body[i].tokens) = 16
        /\ \A k \in 1..Len(xml.measures), staff \in {1, 2} :
              XmlMeasureTicks(XmlStaff(xml.measures[k], staff)) = 32

----------------------------------------------------------------------------
(* Claim about runs that reach the end of the pitch track (SpecAudio) *)

\* frame a is the first frame of a run of a sounding pitch
RunStartsAt(a) ==
    /\ pitches[a].midi # <<>>
    /\ a > 1 => pitches[a - 1].midi # pitches[a].midi

\* the first frame after the run that starts at frame a; Len(pitches) + 1
\* when the run is still open at the last frame
RunEndsBefore(a) ==
    SetMin({j \in a..Len(pitches) : pitches[j].midi # pitches[a].midi} \cup {Len(pitches) + 1})

\* C29: every maximal run of consecutive frames with the same sounding pitch
\* that lasts at least 0.12 s becomes a note that starts where the run
\* starts, wherever the run lies, also when it is still open at the last
\* frame of the pitch track.
EveryLongRunBecomesNote ==
    scanPhase = "done" /\ waveform # IdleWaveform =>
        \A a \in 1..Len(pitches) :
            RunStartsAt(a)
              /\ (RunEndsBefore(a) - a) * hopSize * 100 >= 12 * waveform.sampleRate
            => \E n \in 1..Len(rawNotes) :
                  /\ rawNotes[n].pitch = pitches[a].midi[1]
                  /\ rawNotes[n].time = pitches[a].time

----------------------------------------------------------------------------
(* withRetry and the two paths of composeMusic (App.tsx)                    *)

\* the largest retries a caller passes on its own; composeMusic and the
\* other callers of the code pass none and get the default
MaxRetries == 2
DEFAULT_RETRIES == 5
DEFAULT_DELAY == 2000

\* an error as withRetry looks at it: status (0 for none) and message (<<>>
\* for none, else <<the text>>)
ApiError(status, message) == [status |-> status, message |-> message]

\* mutant of isRateLimit: every failure counts as a rate limit
isFailure(error) == TRUE

\* error.status === 429 || error.message?.includes('429')
isRateLimit(error) ==
    \/ error.status = 429
    \/ error.message # <<>> /\ includes(error.message[1], <<"4", "2", "9">>)

\* delay * 2
nextDelay(ms) == ms * 2

\* the errors fn throws: a 429 response, a failure that only mentions 429 in
\* its text, a server failure, and a thrown value without status or message
ApiErrors ==
    {ApiError(429, <<<<"b", "u", "s", "y">>>>),
     ApiError(0, <<<<"g", "o", "t", " ", "4", "2", "9">>>>),
     ApiError(500, <<<<"d", "o", "w", "n">>>>),
     ApiError(0, <<>>)}

\* Math.random() * 1000, rounded down to ms
Jitters == {0, 999}

RetryState(phase, r, ms, n) ==
    /\ retryPhase' = phase
    /\ retries' = r
    /\ delay' = ms
    /\ calls' = n

InitRetry ==
    /\ PipelineIdle
    /\ SideIdle

\* withRetry(fn, retries, delay) is entered: it calls fn and awaits it
withRetry(r, ms) ==
    /\ RetryState("calling", r, ms, calls + 1)
    /\ UNCHANGED <<waits, failures, retryResult, notRetryVars>>

\* a caller passes retries of its own
CallWithRetry(r) ==
    /\ retryPhase = "idle"
    /\ retryArgs' = <<[retries |-> r, offline |-> FALSE]>>
    /\ withRetry(r, DEFAULT_DELAY)

\* composeMusic: offline (placeholder key or forceProcedural) it returns
\* proceduralCompose(...), the generator of SpecGen; else it returns
\* withRetry(...) with the default retries and delay
ComposeMusic(isApiKeyPlaceholder, forceProcedural) ==
    /\ retryPhase = "idle"
    /\ IF isApiKeyPlaceholder \/ forceProcedural
       THEN /\ retryArgs' = <<[retries |-> DEFAULT_RETRIES, offline |-> TRUE]>>
            /\ RetryState("returned", retries, delay, calls)
            /\ retryResult' = <<"proceduralCompose">>
            /\ UNCHANGED <<waits, failures, notRetryVars>>
       ELSE /\ retryArgs' = <<[retries |-> DEFAULT_RETRIES, offline |-> FALSE]>>
            /\ withRetry(DEFAULT_RETRIES, DEFAULT_DELAY)

\* fn resolves: return await fn()
FnResolves ==
    /\ retryPhase = "calling"
    /\ RetryState("returned", retries, delay, calls)
    /\ retryResult' = <<"fn">>
    /\ UNCHANGED <<waits, failures, retryArgs, notRetryVars>>

\* fn rejects: the catch block, up to the timer it awaits or to the throw
FnRejects(error, jitter) ==
    /\ retryPhase = "calling"
    /\ failures' = Append(failures, error)
    /\ IF retries > 0 /\ isRateLimit(error)
       THEN /\ RetryState("waiting", retries, delay, calls)
            /\ waits' = Append(waits, [delay |-> delay, jitter |-> jitter])
            /\ UNCHANGED retryResult
       ELSE /\ RetryState("thrown", retries, delay, calls)
            /\ retryResult' = <<error>>
            /\ UNCHANGED waits
    /\ UNCHANGED <<retryArgs, notRetryVars>>

\* the timer fires: return withRetry(fn, retries - 1, delay * 2)
TimerFires ==
    /\ retryPhase = "waiting"
    /\ withRetry(retries - 1, nextDelay(delay))
    /\ UNCHANGED retryArgs

NextRetry ==
    \/ \E r \in 0..MaxRetries : CallWithRetry(r)
    \/ \E isApiKeyPlaceholder \in BOOLEAN, forceProcedural \in BOOLEAN :
          ComposeMusic(isApiKeyPlaceholder, forceProcedural)
    \/ FnResolves
    \/ \E error \in ApiErrors, jitter \in Jitters : FnRejects(error, jitter)
    \/ TimerFires

SpecRetry == InitRetry /\ [][NextRetry]_vars

\* fn settles and the timer fires: every step that can be taken is taken
SpecRetryFair == SpecRetry /\ WF_vars(NextRetry)

----------------------------------------------------------------------------
(* Claim about withRetry (SpecRetryFair) *)

RetrySettled == retryPhase = "returned" \/ retryPhase = "thrown"

\* 2000, 4000, 8000, ...: the base delay of the k-th timer
RECURSIVE DoubledDelay(_)
DoubledDelay(k) == IF k <= 1 THEN DEFAULT_DELAY ELSE 2 * DoubledDelay(k - 1)

\* fn is called at most retries + 1 times, once more than timers were set
CallsBounded ==
    retryPhase # "idle" /\ ~retryArgs[1].offline =>
        /\ calls <= retryArgs[1].retries + 1
        /\ retries + calls = retryArgs[1].retries + 1
        /\ calls = Len(waits) + (IF retryPhase = "waiting" THEN 0 ELSE 1)

\* a timer is set only after a 429 failure, each with twice the base delay
\* of the one before
RetriesOnlyAfterRateLimit ==
    /\ Len(waits) <= Len(failures)
    /\ \A k \in 1..Len(waits) :
          /\ failures[k].status = 429
                \/ (failures[k].message # <<>>
                      /\ includes(failures[k].message[1], <<"4", "2", "9">>))
          /\ waits[k].delay = DoubledDelay(k)

\* a failure that is not a rate limit, or one with no retries left, is
\* thrown to the caller as it is, with no timer set after it
OtherFailuresRethrown ==
    /\ retryPhase = "thrown" =>
          /\ retryResult = <<failures[Len(failures)]>>
          /\ Len(waits) = Len(failures) - 1
    /\ \A k \in 1..Len(failures) :
          (failures[k].status # 429 /\ failures[k].message = <<>>)
            \/ failures[k].status = 500
            \/ k = retryArgs[1].retries + 1
          => retryPhase = "thrown" /\ k = Len(failures)

\* the offline path of composeMusic never enters withRetry
OfflineSkipsRetry ==
    retryPhase # "idle" /\ retryArgs[1].offline =>
        /\ calls = 0
        /\ waits = <<>>
        /\ failures = <<>>
        /\ retryResult = <<"proceduralCompose">>

\* C30: withRetry calls fn at most retries + 1 times (6 by default) and
\* always ends: it retries only after a rate-limit (429) failure while
\* retries remain, doubling the base delay each time; any other failure, or
\* a rate-limit failure with no retries left, is thrown to the caller at
\* once; and the offline path of composeMusic never goes through withRetry.
RetryBoundedAndEnds ==
    /\ [](CallsBounded /\ RetriesOnlyAfterRateLimit /\ OtherFailuresRethrown
            /\ OfflineSkipsRetry)
    /\ <>RetrySettled

\* the default call used up: six calls, five timers from 2 s to 32 s, and
\* the sixth 429 thrown to the caller
RetryBoundedAndEndsWitness ==
    /\ retryPhase = "thrown"
    /\ retryArgs[1].retries = DEFAULT_RETRIES
    /\ calls = 6
    /\ Len(waits) = 5
    /\ waits[5].delay = 32000
    /\ retryResult[1].status = 429

====
